---------------------------- MODULE Spec2Model ----------------------------
(***************************************************************************)
(* Model of the sync-committee update circuit (Eth2ScUpdateCircuit), its   *)
(* off-circuit counterparts and the proof lifecycle that drives it.        *)
(*                                                                         *)
(* Abstractions used throughout:                                           *)
(*  - SHA-256 is an injective constructor over byte strings (Sha256), so   *)
(*    "collision-free hash" is a property of the model, not an assumption  *)
(*    of each formula.                                                     *)
(*  - The BLS12-381 groups G1, G2 are the cyclic group Z_GroupOrder written *)
(*    additively (a point is its discrete logarithm), the pairing is       *)
(*    multiplication modulo GroupOrder, and one extra value per group      *)
(*    stands for a point outside the prime-order subgroup.                 *)
(*  - A 64-bit integer is four 16-bit words, least significant first, so   *)
(*    that all 64 bit positions exist.                                     *)
(***************************************************************************)
EXTENDS Integers, Sequences, FiniteSets, TLC

VARIABLES
    pc,       \* position of the test lifecycle: built / proved / verified / failed
    witness,  \* the assigned Eth2ScUpdateCircuit
    proof,    \* the Groth16 proof returned by Prove, or NoProof
    err,      \* the error of the step that failed, or "nil"
    scenario, \* which witness the lifecycle built
    fn,       \* pure-function specifications: the functions applied so far
    arg,      \* pure-function specifications: its input
    ret,      \* pure-function specifications: its result
    disk,     \* setup and relayer: the files of the build and output directories
    mem       \* setup and relayer: the package variables or Relayer fields of the process

vars == <<pc, witness, proof, err, scenario, fn, arg, ret, disk, mem>>
lifecycleVars == <<pc, witness, proof, err, scenario>>
pureVars == <<fn, arg, ret>>
processVars == <<disk, mem>>

\* no file and no process
NoDisk == <<>>
NoMem == <<>>

(* Bounds and program constants *)

\* number of committee members (512 in the code), scaled down
CommitteeSize == 3

\* bytes of one SSZ chunk / SHA-256 digest
ChunkLen == 32
\* bytes of a serialized integer or limb
UintBytes == 8
\* limbs of an emulated BLS12-381 base-field element
NbLimbs == 6
\* depth of the next_sync_committee branch
BranchLen == 6
\* position of next_sync_committee among the BeaconState fields
NextScPosition == 23
\* generalized index of next_sync_committee
NextScGIndex == 87
\* bytes of a serialized base-field element / compressed public key
FpBytes == 48
\* order of the prime-order subgroups (scaled-down prime)
GroupOrder == 7
\* token that opens a digest; bytes are 0..255 and lengths are naturals
HashTag == -1

Indices == 1..CommitteeSize

(* Arithmetic helpers *)

RECURSIVE Pow(_, _)
Pow(b, e) == IF e = 0 THEN 1 ELSE b * Pow(b, e - 1)

Min(a, b) == IF a < b THEN a ELSE b

\* the set of 64-bit values the model draws from, as words (least significant first)
Uint64(w0, w1, w2, w3) == <<w0, w1, w2, w3>>

\* api.ToBinary(v, 64): bit j (0-based, little-endian) of a 64-bit value
ToBinary(v, j) == (v[(j \div 16) + 1] \div Pow(2, j % 16)) % 2

\* byte k (0-based, little-endian) of a 64-bit value, by division
ByteOf(v, k) == (v[((8 * k) \div 16) + 1] \div Pow(2, (8 * k) % 16)) % 256

\* a constant 32-byte value
ConstChunk(b) == [i \in 1..ChunkLen |-> b]

(* SHA-256 and the helper functions of the circuit *)

\* sha2.New / Write / Sum over nbytes input bytes: a digest records the number of
\* bytes written and its input, so it is injective and no digest is a prefix of another
Sha256(pre, nbytes) == <<HashTag, nbytes, Len(pre)>> \o pre

IsDigest(v) == Len(v) > 0 /\ v[1] = HashTag

\* number of bytes a value occupies when written to a hasher
ByteLen(v) == IF IsDigest(v) THEN ChunkLen ELSE Len(v)

\* hashPair: SHA-256 of left || right
hashPair(left, right) == Sha256(left \o right, ByteLen(left) + ByteLen(right))

zeroChunk == [i \in 1..ChunkLen |-> 0]

\* the byte packed from bits byteIdx*8 .. byteIdx*8+7
PackByte(v, byteIdx) ==
    LET RECURSIVE acc(_)
        acc(bitIdx) == IF bitIdx = 8 THEN 0
                       ELSE ToBinary(v, byteIdx * 8 + bitIdx) * Pow(2, bitIdx) + acc(bitIdx + 1)
    IN acc(0)

\* serializeUint64ToChunk writing the bytes most significant first
serializeUint64ToChunkBigEndian(value) ==
    [i \in 1..ChunkLen |-> IF i <= UintBytes THEN PackByte(value, UintBytes - i) ELSE 0]

\* serializeUint64ToChunk: chunk[byteIdx] for byteIdx 0..7, then 24 zero bytes
serializeUint64ToChunk(value) ==
    [i \in 1..ChunkLen |-> IF i <= UintBytes THEN PackByte(value, i - 1) ELSE 0]

\* serializeLimbTo8Bytes writing bytes[byteIdx] = packed byte byteIdx
serializeLimbTo8BytesLittleEndian(limb) ==
    [i \in 1..UintBytes |-> PackByte(limb, i - 1)]

\* serializeLimbTo8Bytes: bytes[7-byteIdx] = packed byte byteIdx
serializeLimbTo8Bytes(limb) ==
    [i \in 1..UintBytes |-> PackByte(limb, UintBytes - i)]

(* BLS12-381 groups, as the gadgets of the proving library see them *)

\* points of the prime-order subgroup of G1 / G2 (0 is the point at infinity)
Subgroup == 0..(GroupOrder - 1)
\* a point outside the prime-order subgroup
OffGroup == GroupOrder
AllPoints == Subgroup \cup {OffGroup}
\* public keys a committee can hold
ValidKeys == 1..(GroupOrder - 1)

\* curve.Generator()
Generator == 1
\* curve.Neg
Neg(p) == IF p = OffGroup THEN OffGroup ELSE (GroupOrder - p) % GroupOrder

\* the x-coordinate of a point: P and -P share it, infinity is (0,0)
XId(p) == IF p = OffGroup THEN GroupOrder ELSE Min(p, (GroupOrder - p) % GroupOrder)

\* limb i (0 = least significant) of the x-coordinate of p; the x-coordinates
\* numbered 1 and 2 agree on their two least significant limbs
XLimbs(p, i) ==
    LET x == XId(p)
        low == IF x = 2 THEN 1 ELSE x
    IN IF x = 0 THEN Uint64(0, 0, 0, 0)
       ELSE IF i <= 1 THEN Uint64(1000 + 257 * i + low, 4660 + i, 43981, 61440 + 16 * low + i)
       ELSE IF i = NbLimbs - 1 THEN Uint64(257 * i + x, 4096 + i, 513 * x, 4096 + x)
       ELSE Uint64(257 * i + x, 4096 + i, 513 * x, 32768 + 16 * i + x)

\* curve.Add: incomplete affine addition, lambda = (q.y - p.y) / (q.x - p.x).
\* The division has no solution when the x-coordinates agree (p = q or p = -q);
\* with an operand at (0,0) or off the subgroup the result is no subgroup point.
AddSolvable(p, q) == XId(p) # XId(q)

curveAdd(p, q) ==
    IF p \in ValidKeys /\ q \in ValidKeys THEN (p + q) % GroupOrder ELSE OffGroup

\* gnark-crypto G1Affine.Add: complete addition
nativeAdd(p, q) == (p + q) % GroupOrder

\* curve.Select
Select(b, x, y) == IF b = 1 THEN x ELSE y

\* api.And / api.Or / api.IsZero on boolean wires
And(a, b) == a * b
Or(a, b) == IF a + b >= 1 THEN 1 ELSE 0
IsZero(a) == IF a = 0 THEN 1 ELSE 0

\* pairing.AssertIsOnG1 / AssertIsOnG2: the subgroup tests use the incomplete
\* formulas and are solvable for finite points of the subgroup only
AssertIsOnG1(p) == p \in ValidKeys
AssertIsOnG2(q) == q \in ValidKeys

\* pairing.PairingCheck on finite subgroup points: the product of the pairings is 1
PairingCheck(P, Q) ==
    /\ \A k \in 1..Len(P) : P[k] \in ValidKeys /\ Q[k] \in ValidKeys
    /\ (P[1] * Q[1] + P[2] * Q[2]) % GroupOrder = 0

\* gnark-crypto PairingCheck: pairs with a point at infinity contribute 1
nativePairingCheck(P, Q) == (P[1] * Q[1] + P[2] * Q[2]) % GroupOrder = 0

\* G1Affine.SetBytes / G2Affine.SetBytes accept the encodings of subgroup points
SetBytesOk(p) == p \in Subgroup

(* The circuit: Eth2ScUpdateCircuit *)

\* the constant DOMAIN of the circuit: the hardcoded sync-committee domain of the Fulu fork
SyncDomain ==
    <<7, 0, 0, 0, 245, 44, 21, 39, 44, 255, 153, 131, 92, 208, 90, 165,
      34, 175, 70, 146, 16, 181, 178, 200, 128, 126, 55, 43, 107, 156, 165, 57>>

\* computeBlockRoot: three levels of hashPair over the eight leaves
computeBlockRoot(w) ==
    LET slotChunk == serializeUint64ToChunk(w.Slot)
        proposerChunk == serializeUint64ToChunk(w.ProposerIndex)
        h01 == hashPair(slotChunk, proposerChunk)
        h23 == hashPair(w.ParentRoot, w.StateRoot)
        h45 == hashPair(w.BodyRoot, zeroChunk)
        h67 == hashPair(zeroChunk, zeroChunk)
        h0123 == hashPair(h01, h23)
        h4567 == hashPair(h45, h67)
    IN hashPair(h0123, h4567)

\* computeSigningRoot: hash(blockRoot || DOMAIN)
computeSigningRoot(blockRoot) == hashPair(blockRoot, SyncDomain)

\* the ETH2 signature tag "BLS_SIG_BLS12381G2_XMD:SHA-256_SSWU_RO_POP_"
dstBytes ==
    <<66, 76, 83, 95, 83, 73, 71, 95, 66, 76, 83, 49, 50, 51, 56, 49, 71, 50, 95, 88, 77, 68,
      58, 83, 72, 65, 45, 50, 53, 54, 95, 83, 83, 87, 85, 95, 82, 79, 95, 80, 79, 80, 95>>

\* h.Sum(): the 32 output bytes of a digest, a fixed function of what was written
Sum(digest) ==
    LET RECURSIVE fold(_, _)
        fold(lo, hi) ==
            IF lo > hi THEN 7
            ELSE IF lo = hi THEN (digest[lo] + 2) % 65521
            ELSE LET mid == (lo + hi) \div 2
                 IN (fold(lo, mid) * 31 + fold(mid + 1, hi) * 17 + 1) % 65521
        s == fold(1, Len(digest))
    IN [j \in 1..ChunkLen |-> ((s + j) * (2 * j + 1) + (s \div 256) * j) % 256]

\* exclusive or of two 4-bit values
XorNibble ==
    LET RECURSIVE bits(_, _)
        bits(a, b) == IF a = 0 THEN b
                      ELSE IF b = 0 THEN a
                      ELSE ((a + b) % 2) + 2 * bits(a \div 2, b \div 2)
    IN [a \in 0..15 |-> [b \in 0..15 |-> bits(a, b)]]

\* bapi.Xor on two bytes
Xor(a, b) == 16 * XorNibble[a \div 16][b \div 16] + XorNibble[a % 16][b % 16]

\* the constants B, rInBytes and maxLen of expandMessageXMD_SHA256
B == 32
rInBytes == 64
maxLen == 255 * B

\* the range check of expandMessageXMD_SHA256 without its upper limit
lenOutOfRangeBelowOnly(lenInBytes) == lenInBytes <= 0

\* the range check of expandMessageXMD_SHA256
lenOutOfRange(lenInBytes) == lenInBytes <= 0 \/ lenInBytes > maxLen

\* l_i_b_str written least significant byte first
lIBLittleEndian(lenInBytes) == <<lenInBytes % 256, (lenInBytes \div 256) % 256>>

\* l_i_b_str = I2OSP(len_in_bytes, 2): uint8(lenInBytes >> 8), uint8(lenInBytes & 0xff)
lIB(lenInBytes) == <<(lenInBytes \div 256) % 256, lenInBytes % 256>>

\* expandMessageXMD_SHA256: the uniform bytes, the error, the number of hash
\* invocations and the block-index bytes written to the hasher
expandMessageXMD_SHA256(msg, dst, lenInBytes) ==
    IF lenOutOfRange(lenInBytes)
    THEN [uniform |-> <<>>, err |-> "len_in_bytes out of range", hashes |-> 0, indexBytes |-> <<>>]
    ELSE
    LET ell == (lenInBytes + B - 1) \div B
        dstPrime == dst \o <<Len(dst) % 256>>
        zPad == [i \in 1..rInBytes |-> 0]
        \* h.Write(in); h.Sum()
        hash(in) == Sum(Sha256(in, Len(in)))
        b0 == hash(zPad \o msg \o lIB(lenInBytes) \o <<0>> \o dstPrime)
        \* one block written into uniformBytes after the previous ones
        write(st, i, bi) == [prev |-> bi, uniform |-> st.uniform \o bi,
                             indexBytes |-> Append(st.indexBytes, i % 256)]
        \* one pass of the loop body for block i
        body(i, st) ==
            write(st, i, hash([j \in 1..B |-> Xor(b0[j], st.prev[j])] \o <<i % 256>> \o dstPrime))
        \* for i := lo; i <= hi; i++, split in halves to bound the evaluation depth:
        \* the first half has written the indices up to mid when the second starts
        RECURSIVE loop(_, _, _)
        loop(lo, hi, st) ==
            IF lo > hi THEN st
            ELSE IF lo = hi THEN body(lo, st)
            ELSE LET mid == (lo + hi) \div 2
                     half == loop(lo, mid, st)
                 IN IF Len(half.indexBytes) = mid THEN loop(mid + 1, hi, half) ELSE half
        \* b_1 and the loop over the later blocks
        blocks(b1) == loop(2, ell, [prev |-> b1, uniform |-> b1, indexBytes |-> <<1>>])
        result(end) == [uniform |-> SubSeq(end.uniform, 1, lenInBytes), err |-> "nil",
                        hashes |-> 1 + Len(end.indexBytes), indexBytes |-> end.indexBytes]
    IN result(blocks(hash(b0 \o <<1>> \o dstPrime)))

\* fp.Modulus(): the modulus of the base field
FieldModulus == 1009

\* bytesToBLS12381FpMod without the final fp.Reduce
bytesToBLS12381FpModUnreduced(b) ==
    LET RECURSIVE horner(_, _)
        horner(k, res) ==
            IF k > Len(b) THEN res
            ELSE IF res >= 256 * FieldModulus
                 THEN horner(k + 1, ((res % FieldModulus) * 256) + b[k])
                 ELSE horner(k + 1, (res * 256) + b[k])
    IN horner(1, 0)

\* bytesToBLS12381FpMod evaluating the bytes least significant first
bytesToBLS12381FpModLittleEndian(b) ==
    LET RECURSIVE horner(_, _)
        horner(k, res) ==
            IF k < 1 THEN res % FieldModulus
            ELSE IF res >= 256 * FieldModulus
                 THEN horner(k - 1, ((res % FieldModulus) * 256) + b[k])
                 ELSE horner(k - 1, (res * 256) + b[k])
    IN horner(Len(b), 0)

\* bytesToBLS12381FpMod: Horner evaluation, res = res * 256 + byte, then Reduce.
\* An emulated element is kept unreduced until its overflow bound is reached.
bytesToBLS12381FpMod(b) ==
    LET RECURSIVE horner(_, _)
        horner(k, res) ==
            IF k > Len(b) THEN res % FieldModulus
            ELSE IF res >= 256 * FieldModulus
                 THEN horner(k + 1, ((res % FieldModulus) * 256) + b[k])
                 ELSE horner(k + 1, (res * 256) + b[k])
    IN horner(1, 0)

\* hashToFieldBLS12381Fp2: m = 2, L = 64, count = 2; u[i].A0 and u[i].A1 from the
\* 64-byte slices at offset L * (j + i * m) of the 256 uniform bytes
hashToFieldBLS12381Fp2(signingRoot) ==
    LET m == 2
        L == 64
        count == 2
        lenInBytes == count * m * L
        tv(uniform, i, j) == SubSeq(uniform, L * (j + i * m) + 1, L * (j + i * m) + L)
        elements(xmd) ==
            IF xmd.err # "nil" THEN [err |-> "expand_message_xmd", u |-> <<>>, xmd |-> xmd]
            ELSE IF Len(xmd.uniform) # lenInBytes
            THEN [err |-> "uniform_bytes length mismatch", u |-> <<>>, xmd |-> xmd]
            ELSE [err |-> "nil",
                  u |-> [i \in 1..count |->
                           [A0 |-> bytesToBLS12381FpMod(tv(xmd.uniform, i - 1, 0)),
                            A1 |-> bytesToBLS12381FpMod(tv(xmd.uniform, i - 1, 1))]],
                  xmd |-> xmd]
    IN elements(expandMessageXMD_SHA256(signingRoot, dstBytes, lenInBytes))

\* the cofactor of G2 in the curve group E2(Fp2), which the model takes as cyclic
\* of order CofactorG2 * GroupOrder
CofactorG2 == 3

\* g2.MapToCurve2 followed by the isogeny: a point of E2(Fp2) for a field element.
\* The cofactor-cleared sum of two mapped points is no point at infinity.
MapToCurve2(u) ==
    GroupOrder * ((u.A0 + u.A1) % CofactorG2) + 1 + ((31 * u.A0 + u.A1) % ((GroupOrder - 1) \div 2))

\* g2.ClearCofactor: multiplication by the cofactor, as a point of the subgroup
ClearCofactor(P) == P % GroupOrder

\* g2.MapToG2: MapToCurve2, isogeny, ClearCofactor
MapToG2(u) == ClearCofactor(MapToCurve2(u))

\* g2.AddUnified: complete addition on G2
AddUnified(P, Q) == (P + Q) % GroupOrder

\* the 32 bytes of a value handed on as [32]uints.U8
Bytes32(v) == IF IsDigest(v) THEN Sum(v) ELSE v

\* hashToG2InCircuit: hash_to_field, two MapToG2, AddUnified
hashToG2InCircuit(signingRoot) ==
    LET Q0(u) == MapToG2(u[1])
        Q1(u) == MapToG2(u[2])
        sum(u) == AddUnified(Q0(u), Q1(u))
    IN sum(hashToFieldBLS12381Fp2(Bytes32(signingRoot)).u)

\* RFC 9380, section 5.3.1: I2OSP, strxor and the blocks b_0, b_1 .. b_n
I2OSP(x, n) == [k \in 1..n |-> (x \div Pow(256, n - k)) % 256]
DstPrime == dstBytes \o I2OSP(Len(dstBytes), 1)
H(input) == Sum(Sha256(input, Len(input)))
RfcB0(msg, lenInBytes) ==
    H([i \in 1..64 |-> 0] \o msg \o I2OSP(lenInBytes, 2) \o I2OSP(0, 1) \o DstPrime)
\* b_1 .. b_hi, given b_1 .. b_(lo-1)
RECURSIVE RfcBlocks(_, _, _, _, _)
RfcBlocks(msg, lenInBytes, lo, hi, before) ==
    IF lo > hi THEN before
    ELSE IF lo = hi
    THEN IF lo = 1 THEN <<H(RfcB0(msg, lenInBytes) \o I2OSP(1, 1) \o DstPrime)>>
         ELSE LET b0 == RfcB0(msg, lenInBytes)
                  strxor == [j \in 1..32 |-> Xor(b0[j], before[lo - 1][j])]
              IN Append(before, H(strxor \o I2OSP(lo, 1) \o DstPrime))
    ELSE LET mid == (lo + hi) \div 2
             half == RfcBlocks(msg, lenInBytes, lo, mid, before)
         IN IF Len(half) = mid THEN RfcBlocks(msg, lenInBytes, mid + 1, hi, half) ELSE <<>>
RfcUniform(msg, lenInBytes) ==
    LET ell == (lenInBytes \div 32) + (IF lenInBytes % 32 = 0 THEN 0 ELSE 1)
        bs == RfcBlocks(msg, lenInBytes, 1, ell, <<>>)
    IN [k \in 1..lenInBytes |-> bs[((k - 1) \div 32) + 1][((k - 1) % 32) + 1]]

\* RFC 9380, section 5.2: hash_to_field(msg, 2) over Fp2 with L = 64; OS2IP of
\* a slice is taken by splitting it in halves
RfcHashToField(msg) ==
    LET uniform == RfcUniform(msg, 256)
        RECURSIVE radixPower(_)
        radixPower(n) == IF n = 0 THEN 1 ELSE (256 * radixPower(n - 1)) % FieldModulus
        RECURSIVE OS2IP(_, _)
        OS2IP(lo, hi) ==
            IF lo = hi THEN uniform[lo]
            ELSE LET mid == (lo + hi) \div 2
                 IN (OS2IP(lo, mid) * radixPower(hi - mid) + OS2IP(mid + 1, hi)) % FieldModulus
    IN [i \in 1..2 |-> [A0 |-> OS2IP(128 * (i - 1) + 1, 128 * (i - 1) + 64) % FieldModulus,
                        A1 |-> OS2IP(128 * (i - 1) + 65, 128 * i) % FieldModulus]]

\* bls12381.HashToG2 of gnark-crypto with the same tag: hash_to_field, the two
\* mapped points added on the curve, the cofactor cleared once
HashToG2(signingRoot) ==
    LET u == RfcHashToField(Bytes32(signingRoot))
    IN ClearCofactor((MapToCurve2(u[1]) + MapToCurve2(u[2])) % (CofactorG2 * GroupOrder))

\* the bytes verifyScPubKeysHash writes to the hasher: Limbs[1] then Limbs[0] of each x
ScPubKeysPreimage(keys) ==
    LET RECURSIVE pre(_)
        pre(i) == IF i > Len(keys) THEN <<>>
                  ELSE serializeLimbTo8Bytes(XLimbs(keys[i], 1))
                       \o serializeLimbTo8Bytes(XLimbs(keys[i], 0))
                       \o pre(i + 1)
    IN pre(1)

\* verifyScPubKeysHash: the recomputed hash equals the public input byte for byte
verifyScPubKeysHash(w) ==
    LET pre == ScPubKeysPreimage(w.ScPubKeys)
    IN Sha256(pre, Len(pre)) = w.ScPubKeysHash

\* the loop of aggregatePubKeys over keys 1..511.
\* sat: every constraint has a solution; adds: the operands of each curve.Add
aggregateLoop(keys, bits) ==
    LET RECURSIVE loop(_, _)
        loop(i, st) ==
            IF i > Len(keys) THEN st
            ELSE LET bit == bits[i]
                     isFirstSelected == And(IsZero(st.hasInitialized), bit)
                     shouldAdd == And(st.hasInitialized, bit)
                     sum == curveAdd(st.accumulator, keys[i])
                     tempResult == Select(shouldAdd, sum, st.accumulator)
                 IN loop(i + 1,
                         [accumulator |-> Select(isFirstSelected, keys[i], tempResult),
                          hasInitialized |-> Or(st.hasInitialized, bit),
                          sat |-> st.sat /\ AddSolvable(st.accumulator, keys[i]),
                          adds |-> Append(st.adds, <<st.accumulator, keys[i]>>)])
    IN loop(2, [accumulator |-> keys[1], hasInitialized |-> bits[1],
                sat |-> TRUE, adds |-> <<>>])

\* aggregatePubKeys with the final assertion left out
aggregatePubKeysUnasserted(keys, bits) == aggregateLoop(keys, bits)

\* aggregatePubKeys: the loop, then api.AssertIsEqual(hasInitialized, 1)
aggregatePubKeys(keys, bits) ==
    LET end == aggregateLoop(keys, bits)
    IN [end EXCEPT !.sat = end.sat /\ end.hasInitialized = 1]

\* verifyBLSSignature with the pairing check left out
verifyBLSSignatureSubgroupsOnly(aggregatedPubKey, signingRootG2, AggregatedSig) ==
    /\ AssertIsOnG1(aggregatedPubKey)
    /\ AssertIsOnG2(signingRootG2)
    /\ AssertIsOnG2(AggregatedSig)

\* verifyBLSSignature with the generator left unnegated
verifyBLSSignatureUnnegated(aggregatedPubKey, signingRootG2, AggregatedSig) ==
    /\ AssertIsOnG1(aggregatedPubKey)
    /\ AssertIsOnG2(signingRootG2)
    /\ AssertIsOnG2(AggregatedSig)
    /\ PairingCheck(<<aggregatedPubKey, Generator>>, <<signingRootG2, AggregatedSig>>)

\* verifyBLSSignature: three subgroup assertions and the pairing check
\* e(pubkey, H(msg)) * e(-G1, signature) == 1
verifyBLSSignature(aggregatedPubKey, signingRootG2, AggregatedSig) ==
    /\ AssertIsOnG1(aggregatedPubKey)
    /\ AssertIsOnG2(signingRootG2)
    /\ AssertIsOnG2(AggregatedSig)
    /\ PairingCheck(<<aggregatedPubKey, Neg(Generator)>>, <<signingRootG2, AggregatedSig>>)

\* the path of position 22, the sibling leaf
pathOfSibling == <<0, 1, 1, 0, 1, 0>>

\* path: the bits of position 23, least significant first
path == <<1, 1, 1, 0, 1, 0>>

\* the loop of verifyNextSyncCommitteeMerkleProof hashing (current, branch[i]) at every level
MerkleWalkLeftOnly(leaf, branch, p, upto) ==
    LET RECURSIVE walk(_, _)
        walk(i, current) ==
            IF i > upto THEN current
            ELSE walk(i + 1, hashPair(current, branch[i]))
    IN walk(1, leaf)

\* the loop of verifyNextSyncCommitteeMerkleProof along a given path;
\* the running value after `upto` levels
MerkleWalk(leaf, branch, p, upto) ==
    LET RECURSIVE walk(_, _)
        walk(i, current) ==
            IF i > upto THEN current
            ELSE IF p[i] = 1 THEN walk(i + 1, hashPair(branch[i], current))
            ELSE walk(i + 1, hashPair(current, branch[i]))
    IN walk(1, leaf)

\* verifyNextSyncCommitteeMerkleProof with the final assertion left out
verifyNextSyncCommitteeMerkleProofUnasserted(w) ==
    IsDigest(MerkleWalk(w.NextScRoot, w.NextScBranch, path, BranchLen))

\* verifyNextSyncCommitteeMerkleProof: the root computed along path equals StateRoot
verifyNextSyncCommitteeMerkleProof(w) ==
    MerkleWalk(w.NextScRoot, w.NextScBranch, path, BranchLen) = w.StateRoot

\* Define: the constraints in the order the circuit states them; the name of the
\* first step without a solution, or "nil"
Define(w) ==
    LET agg == aggregatePubKeys(w.ScPubKeys, w.ScBits)
        signingRoot == computeSigningRoot(computeBlockRoot(w))
        signingRootG2 == hashToG2InCircuit(signingRoot)
    IN IF ~verifyScPubKeysHash(w) THEN "verifyScPubKeysHash"
       ELSE IF ~agg.sat THEN "aggregatePubKeys"
       ELSE IF ~verifyBLSSignature(agg.accumulator, signingRootG2, w.AggregatedSig)
            THEN "verifyBLSSignature"
       ELSE IF ~verifyNextSyncCommitteeMerkleProof(w)
            THEN "verifyNextSyncCommitteeMerkleProof"
       ELSE "nil"

(* Off-circuit counterparts (package types) and the witness builder *)

\* the loop of ParseSyncCommitteeBits reading every byte from its most
\* significant bit
parseBitsMsbFirst(bitsBytes, n) ==
    [i \in 1..n |->
        LET byteIndex == (i - 1) \div 8
            bitIndex == (i - 1) % 8
        IN IF byteIndex < Len(bitsBytes)
           THEN (bitsBytes[byteIndex + 1] \div Pow(2, 7 - bitIndex)) % 2 = 1
           ELSE FALSE]

\* the loop of ParseSyncCommitteeBits over n entries:
\* bits[i] = bitsBytes[i / 8] & (1 << (i % 8)) != 0 when byte i / 8 exists
parseBits(bitsBytes, n) ==
    [i \in 1..n |->
        LET byteIndex == (i - 1) \div 8
            bitIndex == (i - 1) % 8
        IN IF byteIndex < Len(bitsBytes)
           THEN (bitsBytes[byteIndex + 1] \div Pow(2, bitIndex)) % 2 = 1
           ELSE FALSE]

\* generateProof: witness.ScBits[i] = 1 if bits[i], else 0
assignScBits(bits) == [i \in 1..Len(bits) |-> IF bits[i] THEN 1 ELSE 0]

\* ParseSyncCommitteeBits: bit i of the bit field, least significant bit first;
\* bits past the end of a short input are false
ParseSyncCommitteeBits(bitsBytes) == parseBits(bitsBytes, CommitteeSize)

\* AggregatePublicKeys: complete additions from the point at infinity
AggregatePublicKeys(pubkeys, bits) ==
    LET RECURSIVE loop(_, _)
        loop(i, st) ==
            IF i > Len(bits) \/ st.err # "nil" THEN st
            ELSE IF ~bits[i] \/ i > Len(pubkeys) THEN loop(i + 1, st)
            ELSE IF ~SetBytesOk(pubkeys[i])
                 THEN [st EXCEPT !.err = "failed to deserialize pubkey", !.count = 0]
            ELSE loop(i + 1, [st EXCEPT !.aggPubkey = nativeAdd(st.aggPubkey, pubkeys[i]),
                                        !.count = st.count + 1])
        end == loop(1, [aggPubkey |-> 0, count |-> 0, err |-> "nil"])
    IN IF end.err = "nil" /\ end.count = 0
       THEN [end EXCEPT !.err = "no public keys to aggregate"]
       ELSE end

\* fp.Element.Bytes: the 48 big-endian bytes of the x-coordinate
XBytes(p) ==
    [b \in 1..FpBytes |->
        ByteOf(XLimbs(p, (NbLimbs - 1) - ((b - 1) \div UintBytes)),
               (UintBytes - 1) - ((b - 1) % UintBytes))]

\* ComputeScPubKeysHash: SHA-256 over xBytes[32:] of every key
ComputeScPubKeysHash(pubkeys) ==
    LET RECURSIVE pre(_)
        pre(i) == IF i > Len(pubkeys) THEN <<>>
                  ELSE SubSeq(XBytes(pubkeys[i]), 33, FpBytes) \o pre(i + 1)
        bytesToHash == pre(1)
    IN Sha256(bytesToHash, Len(bytesToHash))

\* BLSPubkey: the compressed encoding, x big-endian with the flag bits in byte 0
BLSPubkey(p) ==
    LET x == XBytes(p)
        flags == IF p = 0 THEN 192 ELSE IF 2 * p > GroupOrder THEN 160 ELSE 128
    IN [b \in 1..FpBytes |-> IF b = 1 THEN x[1] + flags ELSE x[b]]

\* SyncCommittee.HashTreeRoot: a digest of the encoded keys
HashTreeRootSyncCommittee(pubkeys) ==
    LET RECURSIVE enc(_)
        enc(i) == IF i > Len(pubkeys) THEN <<>> ELSE BLSPubkey(pubkeys[i]) \o enc(i + 1)
    IN Sha256(enc(1), FpBytes * Len(pubkeys))

\* the 32-byte SSZ chunk of a uint64: its little-endian bytes, zero padded
Uint64Chunk(v) == [i \in 1..ChunkLen |-> IF i <= UintBytes THEN ByteOf(v, i - 1) ELSE 0]

\* BeaconBlockHeader.HashTreeRoot of the SSZ library: Merkleization of the five
\* fields padded to eight leaves
HeaderHashTreeRoot(header) ==
    hashPair(hashPair(hashPair(Uint64Chunk(header.Slot), Uint64Chunk(header.ProposerIndex)),
                      hashPair(header.ParentRoot, header.StateRoot)),
             hashPair(hashPair(header.BodyRoot, zeroChunk), hashPair(zeroChunk, zeroChunk)))

\* computeSigningRoot of the test package: ComputeSigningRoot(blockRoot, domain),
\* the domain of the fixture's fork being the value hardcoded as DOMAIN
nativeSigningRoot(header) == hashPair(HeaderHashTreeRoot(header), SyncDomain)

\* the index-driven walk of verifyTransactionMerkleProof: the node is a left child
\* when the index is even, and the index is halved at every level
IndexWalk(leaf, branch, index) ==
    LET RECURSIVE walk(_, _, _)
        walk(i, idx, merkleizedRoot) ==
            IF i > Len(branch) THEN merkleizedRoot
            ELSE IF idx % 2 = 0 THEN walk(i + 1, idx \div 2, hashPair(merkleizedRoot, branch[i]))
            ELSE walk(i + 1, idx \div 2, hashPair(branch[i], merkleizedRoot))
    IN walk(1, index, leaf)

\* the tail of verifySyncAggregate: the signature is deserialized and the
\* pairing check decides
verifyAggregate(aggPubkey, messageHash, signature) ==
    IF ~SetBytesOk(signature) THEN "failed to deserialize signature"
    ELSE IF ~nativePairingCheck(<<aggPubkey, Neg(Generator)>>, <<messageHash, signature>>)
         THEN "signature verification failed"
    ELSE "nil"

\* verifySyncAggregate: "nil" when the aggregate signature verifies
verifySyncAggregate(pubkeys, update) ==
    LET bits == ParseSyncCommitteeBits(update.SyncCommitteeBits)
        agg == AggregatePublicKeys(pubkeys, bits)
        messageHash == HashToG2(nativeSigningRoot(update))
    IN IF agg.err # "nil" THEN "failed to aggregate public keys"
       ELSE verifyAggregate(agg.aggPubkey, messageHash, update.SyncCommitteeSignature)

\* the witness the tests and the relayer assign from a committee and an update
AssignWitness(pubkeys, update) ==
    LET bits == ParseSyncCommitteeBits(update.SyncCommitteeBits)
    IN [Slot |-> update.Slot,
        ProposerIndex |-> update.ProposerIndex,
        ParentRoot |-> update.ParentRoot,
        StateRoot |-> update.StateRoot,
        BodyRoot |-> update.BodyRoot,
        ScPubKeys |-> pubkeys,
        ScBits |-> assignScBits(bits),
        AggregatedSig |-> update.SyncCommitteeSignature,
        NextScBranch |-> update.NextSyncCommitteeBranch,
        ScPubKeysHash |-> ComputeScPubKeysHash(pubkeys),
        NextScRoot |-> HashTreeRootSyncCommittee(update.NextSyncCommittee)]

\* the fields of Eth2ScUpdateCircuit in declaration order, with their gnark tag
CircuitFields ==
    <<[name |-> "Slot", public |-> FALSE], [name |-> "ProposerIndex", public |-> FALSE],
      [name |-> "ParentRoot", public |-> FALSE], [name |-> "StateRoot", public |-> FALSE],
      [name |-> "BodyRoot", public |-> FALSE], [name |-> "ScPubKeys", public |-> FALSE],
      [name |-> "ScBits", public |-> FALSE], [name |-> "AggregatedSig", public |-> FALSE],
      [name |-> "NextScBranch", public |-> FALSE], [name |-> "ScPubKeysHash", public |-> TRUE],
      [name |-> "NextScRoot", public |-> TRUE]>>

\* frontend.PublicOnly: the scalars of the public fields, in declaration order
PublicOnly(w) ==
    LET RECURSIVE scalars(_)
        scalars(k) == IF k > Len(CircuitFields) THEN <<>>
                      ELSE (IF CircuitFields[k].public THEN w[CircuitFields[k].name] ELSE <<>>)
                           \o scalars(k + 1)
    IN scalars(1)

\* the input array updateSyncCommittee passes to the verifier with the next
\* committee root first
VerifierInputRootFirst(currScPubKeyHash, nextScRoot) == nextScRoot \o currScPubKeyHash

\* updateSyncCommittee: uint256[64] input, input[i] = uint8(currScPubKeyHash[i]),
\* input[i + 32] = uint8(nextScRoot[i])
VerifierInput(currScPubKeyHash, nextScRoot) ==
    [k \in 1..(2 * ChunkLen) |->
        IF k <= ChunkLen THEN currScPubKeyHash[k] % 256 ELSE nextScRoot[k - ChunkLen] % 256]

(* Inputs of the lifecycle: committees and light-client updates *)

\* the keys the committees of the lifecycle are drawn from: 4 is -3, so a committee
\* can hold a key twice and an aggregate can meet the negation of the next key
MemberKeys == {1, 2, 4}

Committees == [1..CommitteeSize -> MemberKeys]

\* bit fields with at least one participant, one byte per eight members
BitFields == {<<b>> : b \in 1..(Pow(2, CommitteeSize) - 1)}

NextCommittee == [i \in 1..CommitteeSize |-> ((2 * i) % (GroupOrder - 1)) + 1]

HeaderSlot == Uint64(8192, 138, 0, 0)
HeaderProposer == Uint64(31337, 1, 0, 0)

StateBranch == [i \in 1..BranchLen |-> ConstChunk(i)]

\* the sum of the keys the bit field selects
SelectedSum(pubkeys, bits) ==
    LET RECURSIVE sum(_)
        sum(i) == IF i > Len(pubkeys) THEN 0
                  ELSE ((IF bits[i] THEN pubkeys[i] ELSE 0) + sum(i + 1)) % GroupOrder
    IN sum(1)

\* the aggregate key of the members that signed; the beacon chain has no update
\* whose participants aggregate to the point at infinity
Participants(pubkeys, bitsBytes) == SelectedSum(pubkeys, ParseSyncCommitteeBits(bitsBytes))

\* the values the invalid-state-root witness puts in place of StateRoot
ReplacedRoots == {ConstChunk(b) : b \in {0, 9, 255}}

\* the attested header of the updates: its state root holds the next committee at
\* position 23
HonestHeader ==
    [Slot |-> HeaderSlot,
     ProposerIndex |-> HeaderProposer,
     ParentRoot |-> ConstChunk(17),
     StateRoot |-> IndexWalk(HashTreeRootSyncCommittee(NextCommittee),
                             StateBranch, NextScPosition),
     BodyRoot |-> ConstChunk(34)]

\* the point the participants sign: the hash to G2 of the header's signing root
HonestMessage == HashToG2(nativeSigningRoot(HonestHeader))

\* an update the beacon chain produces for a committee: the state root holds the
\* next committee at position 23 and the participants signed the signing root
HonestUpdate(pubkeys, bitsBytes) ==
    LET header == HonestHeader
        signers == Participants(pubkeys, bitsBytes)
    IN [Slot |-> header.Slot,
        ProposerIndex |-> header.ProposerIndex,
        ParentRoot |-> header.ParentRoot,
        StateRoot |-> header.StateRoot,
        BodyRoot |-> header.BodyRoot,
        NextSyncCommittee |-> NextCommittee,
        NextSyncCommitteeBranch |-> StateBranch,
        SyncCommitteeBits |-> bitsBytes,
        SyncCommitteeSignature |-> (signers * HonestMessage) % GroupOrder]

(* The test lifecycle: witness construction, Prove, Verify *)

NoWitness == [Slot |-> <<>>]
NoProof == [public |-> <<>>]

\* TestEth2ScUpdateCircuit: the witness of an honest update
BuildWitness ==
    /\ pc = "start"
    /\ \E pubkeys \in Committees, bitsBytes \in BitFields :
         /\ Participants(pubkeys, bitsBytes) # 0
         /\ witness' = AssignWitness(pubkeys, HonestUpdate(pubkeys, bitsBytes))
    /\ scenario' = "valid"
    /\ pc' = "built"
    /\ UNCHANGED <<proof, err, pureVars, processVars>>

\* TestEth2ScUpdateCircuitInvalidSignature: the same witness with AggregatedSig
\* replaced by another point
BuildWitnessInvalidSignature ==
    /\ pc = "start"
    /\ \E pubkeys \in Committees, bitsBytes \in BitFields :
         /\ Participants(pubkeys, bitsBytes) # 0
         /\ LET w == AssignWitness(pubkeys, HonestUpdate(pubkeys, bitsBytes))
            IN \E sig \in AllPoints \ {w.AggregatedSig} :
                 witness' = [w EXCEPT !.AggregatedSig = sig]
    /\ scenario' = "invalidSignature"
    /\ pc' = "built"
    /\ UNCHANGED <<proof, err, pureVars, processVars>>

\* TestEth2ScUpdateCircuitInvalidBlockRoot: the witness of an honest update with
\* StateRoot replaced (the test builds the all-0xFF root)
BuildWitnessInvalidStateRoot ==
    /\ pc = "start"
    /\ \E pubkeys \in Committees, bitsBytes \in BitFields :
         /\ Participants(pubkeys, bitsBytes) # 0
         /\ LET w == AssignWitness(pubkeys, HonestUpdate(pubkeys, bitsBytes))
            IN \E root \in ReplacedRoots \ {w.StateRoot} :
                 witness' = [w EXCEPT !.StateRoot = root]
    /\ scenario' = "invalidStateRoot"
    /\ pc' = "built"
    /\ UNCHANGED <<proof, err, pureVars, processVars>>

\* groth16.Prove: solves the constraints of Define for the full witness
Prove ==
    /\ pc = "built"
    /\ LET solved == Define(witness)
       IN IF solved = "nil"
          THEN /\ proof' = [public |-> PublicOnly(witness)]
               /\ err' = "nil"
               /\ pc' = "proved"
          ELSE /\ proof' = NoProof
               /\ err' = solved
               /\ pc' = "failed"
    /\ UNCHANGED <<witness, scenario, pureVars, processVars>>

\* groth16.Verify on the public-only projection of the witness
Verify ==
    /\ pc = "proved"
    /\ IF proof.public = PublicOnly(witness)
       THEN pc' = "verified" /\ err' = "nil"
       ELSE pc' = "failed" /\ err' = "Verify"
    /\ UNCHANGED <<witness, proof, scenario, pureVars, processVars>>

Init ==
    /\ pc = "start"
    /\ witness = NoWitness
    /\ proof = NoProof
    /\ err = "nil"
    /\ scenario = "none"
    /\ fn = {}
    /\ arg = <<>>
    /\ ret = <<>>
    /\ disk = NoDisk
    /\ mem = NoMem

Next ==
    \/ BuildWitness
    \/ BuildWitnessInvalidSignature
    \/ BuildWitnessInvalidStateRoot
    \/ Prove
    \/ Verify

Spec == Init /\ [][Next]_vars

(* Claims about the lifecycle *)

\* C1: for every update with a correct aggregate signature, a correct commitment
\* and a correct branch, witness construction, Prove and Verify complete with no
\* error at any step.
C1_RoundTripSucceeds ==
    scenario = "valid" => (pc # "failed" /\ err = "nil")

\* C2: replacing only AggregatedSig of an otherwise valid witness by a different
\* G2 point makes constraint solving fail: Prove returns an error and no proof
\* is produced for that witness.
C2_InvalidSignatureRejected ==
    scenario = "invalidSignature" =>
        /\ pc \in {"built", "failed"}
        /\ proof = NoProof
        /\ (pc = "failed" => err # "nil")

\* a witness whose only defect is the replaced signature, rejected by the pairing check
C2_Witness ==
    /\ scenario = "invalidSignature"
    /\ pc = "failed"
    /\ err = "verifyBLSSignature"
    /\ witness.AggregatedSig \in ValidKeys
    /\ Define([witness EXCEPT !.AggregatedSig =
                 (aggregatePubKeys(witness.ScPubKeys, witness.ScBits).accumulator
                  * HashToG2(nativeSigningRoot(witness))) % GroupOrder]) = "nil"

\* C3: replacing only StateRoot of an otherwise valid witness by a different
\* 32-byte value makes constraint solving fail, so Prove returns an error.
C3_InvalidStateRootRejected ==
    scenario = "invalidStateRoot" =>
        /\ pc \in {"built", "failed"}
        /\ proof = NoProof
        /\ (pc = "failed" => err # "nil")

\* a witness with the all-0xFF state root whose every other check is solvable:
\* with the honest state root put back, Define has a solution
C3_Witness ==
    /\ scenario = "invalidStateRoot"
    /\ pc = "failed"
    /\ witness.StateRoot = ConstChunk(255)
    /\ Define([witness EXCEPT !.StateRoot =
                 IndexWalk(witness.NextScRoot, witness.NextScBranch, NextScPosition)]) = "nil"

(* Pure-function specifications: the lifecycle stays idle *)

Idle ==
    /\ pc = "idle"
    /\ witness = NoWitness
    /\ proof = NoProof
    /\ err = "nil"
    /\ scenario = "none"
    /\ disk = NoDisk
    /\ mem = NoMem

(* Aggregation: aggregatePubKeys against AggregatePublicKeys *)

KeyVectors == [Indices -> ValidKeys]
BitVectors == [Indices -> {0, 1}]

NoAggregate == [accumulator |-> 0, hasInitialized |-> 0, sat |-> FALSE, adds |-> <<>>]
NoNativeAggregate == [aggPubkey |-> 0, count |-> 0, err |-> "none"]

InitAgg ==
    /\ Idle
    /\ fn = {}
    /\ arg \in [keys : KeyVectors, bits : BitVectors]
    /\ ret = [circuit |-> NoAggregate, native |-> NoNativeAggregate]

ApplyAggregatePubKeys ==
    /\ "aggregatePubKeys" \notin fn
    /\ fn' = fn \cup {"aggregatePubKeys"}
    /\ ret' = [ret EXCEPT !.circuit = aggregatePubKeys(arg.keys, arg.bits)]
    /\ UNCHANGED <<arg, lifecycleVars, processVars>>

ApplyAggregatePublicKeys ==
    /\ "AggregatePublicKeys" \notin fn
    /\ fn' = fn \cup {"AggregatePublicKeys"}
    /\ ret' = [ret EXCEPT !.native =
                 AggregatePublicKeys(arg.keys, [i \in Indices |-> arg.bits[i] = 1])]
    /\ UNCHANGED <<arg, lifecycleVars, processVars>>

NextAgg ==
    \/ ApplyAggregatePubKeys
    \/ ApplyAggregatePublicKeys

SpecAgg == InitAgg /\ [][NextAgg]_vars

\* the group sum of the keys whose bit is 1
GroupSum(keys, bits) ==
    LET RECURSIVE sum(_)
        sum(i) == IF i = 0 THEN 0
                  ELSE (sum(i - 1) + (IF bits[i] = 1 THEN keys[i] ELSE 0)) % GroupOrder
    IN sum(Len(keys))

\* C4: for every key vector and every bit vector with at least one bit set,
\* aggregatePubKeys returns the group sum of exactly the selected keys, and that
\* point equals the result of the off-circuit AggregatePublicKeys.
C4_AggregateEqualsSum ==
    (fn = {"aggregatePubKeys", "AggregatePublicKeys"} /\ \E i \in Indices : arg.bits[i] = 1) =>
        /\ ret.circuit.sat
        /\ ret.circuit.accumulator = GroupSum(arg.keys, arg.bits)
        /\ ret.native.err = "nil"
        /\ ret.circuit.accumulator = ret.native.aggPubkey

\* C5: aggregatePubKeys is satisfiable only if at least one bit is 1: after the
\* loop hasInitialized is the OR of all bits and is asserted to be 1, so the
\* all-zero bit vector is unsatisfiable whatever the keys are.
C5_AtLeastOneParticipant ==
    "aggregatePubKeys" \in fn =>
        /\ ret.circuit.hasInitialized = (IF \E i \in Indices : arg.bits[i] = 1 THEN 1 ELSE 0)
        /\ (ret.circuit.sat => \E i \in Indices : arg.bits[i] = 1)
        /\ ((\A i \in Indices : arg.bits[i] = 0) => ~ret.circuit.sat)

\* the all-zero bit vector on keys whose additions are all solvable: only the
\* final assertion rejects
C5_Witness ==
    /\ "aggregatePubKeys" \in fn
    /\ \A i \in Indices : arg.bits[i] = 0
    /\ \A k \in 1..Len(ret.circuit.adds) :
         AddSolvable(ret.circuit.adds[k][1], ret.circuit.adds[k][2])
    /\ ~ret.circuit.sat

(* BLS verification: verifyBLSSignature against verifySyncAggregate *)

InitBLS ==
    /\ Idle
    /\ fn = {}
    /\ arg \in [aggregatedPubKey : AllPoints, signingRootG2 : AllPoints, AggregatedSig : AllPoints]
    /\ ret = [circuit |-> "none", native |-> "none"]

ApplyVerifyBLSSignature ==
    /\ "verifyBLSSignature" \notin fn
    /\ fn' = fn \cup {"verifyBLSSignature"}
    /\ ret' = [ret EXCEPT !.circuit =
                 IF verifyBLSSignature(arg.aggregatedPubKey, arg.signingRootG2, arg.AggregatedSig)
                 THEN "accept" ELSE "reject"]
    /\ UNCHANGED <<arg, lifecycleVars, processVars>>

\* verifySyncAggregate reaches its pairing check with an aggregate returned by
\* AggregatePublicKeys and a message point returned by HashToG2
ApplyVerifySyncAggregate ==
    /\ "verifySyncAggregate" \notin fn
    /\ arg.aggregatedPubKey \in Subgroup
    /\ arg.signingRootG2 \in ValidKeys
    /\ fn' = fn \cup {"verifySyncAggregate"}
    /\ ret' = [ret EXCEPT !.native =
                 IF verifyAggregate(arg.aggregatedPubKey, arg.signingRootG2, arg.AggregatedSig) = "nil"
                 THEN "accept" ELSE "reject"]
    /\ UNCHANGED <<arg, lifecycleVars, processVars>>

NextBLS ==
    \/ ApplyVerifyBLSSignature
    \/ ApplyVerifySyncAggregate

SpecBLS == InitBLS /\ [][NextBLS]_vars

\* e(a, h) * e(-G1, s) = 1 on subgroup points
PairingProductIsOne(a, h, s) == (a * h + (GroupOrder - Generator) * s) % GroupOrder = 0
\* e(a, h) = e(G1, s) on subgroup points
PairingsEqual(a, h, s) == (a * h) % GroupOrder = (Generator * s) % GroupOrder

BranchShapes == [1..BranchLen -> {"own", "twin"}]

\* the branch of position 23 in a state tree of the given shape
BranchOf(leaf, shape) ==
    LET RECURSIVE build(_, _, _)
        build(i, current, branch) ==
            IF i > BranchLen THEN branch
            ELSE LET node == IF shape[i] = "twin" THEN current ELSE ConstChunk(i)
                     bit == (NextScPosition \div Pow(2, i - 1)) % 2
                 IN build(i + 1,
                          IF bit = 1 THEN hashPair(node, current) ELSE hashPair(current, node),
                          Append(branch, node))
    IN build(1, leaf, <<>>)

\* the paths [1,1,1,0,1,0] becomes when shifted by one bit in either direction
ShiftedPaths ==
    {<<0, 1, 1, 1, 0, 1>>, <<1, 1, 1, 1, 0, 1>>, <<1, 1, 0, 1, 0, 0>>, <<1, 1, 0, 1, 0, 1>>}

InitMerkle ==
    /\ Idle
    /\ fn = {}
    /\ \E leaf \in {ConstChunk(170), ConstChunk(187)}, shape \in BranchShapes, honest \in BOOLEAN :
         LET branch == BranchOf(leaf, shape)
         IN arg = [NextScRoot |-> leaf,
                   NextScBranch |-> branch,
                   StateRoot |-> IF honest THEN IndexWalk(leaf, branch, NextScPosition)
                                 ELSE ConstChunk(255)]
    /\ ret = [ok |-> FALSE, fixed |-> <<>>, generic |-> <<>>, shifted |-> <<>>, shiftedPath |-> <<>>]

ApplyVerifyNextSyncCommitteeMerkleProof ==
    /\ "verifyNextSyncCommitteeMerkleProof" \notin fn
    /\ fn' = fn \cup {"verifyNextSyncCommitteeMerkleProof"}
    /\ ret' = [ret EXCEPT !.ok = verifyNextSyncCommitteeMerkleProof(arg),
                          !.fixed = MerkleWalk(arg.NextScRoot, arg.NextScBranch, path, BranchLen)]
    /\ UNCHANGED <<arg, lifecycleVars, processVars>>

ApplyIndexWalk ==
    /\ "IndexWalk" \notin fn
    /\ fn' = fn \cup {"IndexWalk"}
    /\ ret' = [ret EXCEPT !.generic = IndexWalk(arg.NextScRoot, arg.NextScBranch, NextScPosition)]
    /\ UNCHANGED <<arg, lifecycleVars, processVars>>

\* the same leaf and branch walked along a shifted path
ApplyShiftedWalk ==
    /\ "ShiftedWalk" \notin fn
    /\ fn' = fn \cup {"ShiftedWalk"}
    /\ \E p \in ShiftedPaths :
         ret' = [ret EXCEPT !.shifted = MerkleWalk(arg.NextScRoot, arg.NextScBranch, p, BranchLen),
                            !.shiftedPath = p]
    /\ UNCHANGED <<arg, lifecycleVars, processVars>>

NextMerkle ==
    \/ ApplyVerifyNextSyncCommitteeMerkleProof
    \/ ApplyIndexWalk
    \/ ApplyShiftedWalk

SpecMerkle == InitMerkle /\ [][NextMerkle]_vars

\* the proof in arg is a correct inclusion proof for generalized index 87
CorrectProof == arg.StateRoot = IndexWalk(arg.NextScRoot, arg.NextScBranch, NextScPosition)

\* C7: the walk starts from NextScRoot and at level i replaces current by
\* hash(branch[i], current) when path bit i is 1 and by hash(current, branch[i])
\* when it is 0, with the fixed path [1,1,1,0,1,0]; the result is asserted equal
\* to StateRoot; it is the root of the index-driven walk for position 23 at
\* depth 6, generalized index 87.
C7_FixedPathIsIndexWalk ==
    LET level(i) == MerkleWalk(arg.NextScRoot, arg.NextScBranch, path, i)
    IN "verifyNextSyncCommitteeMerkleProof" \in fn =>
        /\ path = <<1, 1, 1, 0, 1, 0>>
        /\ \A i \in 1..BranchLen : path[i] = (NextScPosition \div Pow(2, i - 1)) % 2
        /\ NextScGIndex = Pow(2, BranchLen) + NextScPosition
        /\ level(0) = arg.NextScRoot
        /\ \A i \in 1..BranchLen :
             level(i) = IF path[i] = 1 THEN hashPair(arg.NextScBranch[i], level(i - 1))
                        ELSE hashPair(level(i - 1), arg.NextScBranch[i])
        /\ ret.fixed = level(BranchLen)
        /\ ret.ok = (ret.fixed = arg.StateRoot)
        /\ ("IndexWalk" \in fn => ret.fixed = ret.generic)

\* both walks applied to a correct proof, and the check accepts it
C7_Witness ==
    /\ {"verifyNextSyncCommitteeMerkleProof", "IndexWalk"} \subseteq fn
    /\ CorrectProof
    /\ ret.ok
    /\ ret.fixed = ret.generic
    /\ \A i \in 1..BranchLen : arg.NextScBranch[i] = ConstChunk(i)

\* C8 as stated: a correct inclusion proof satisfies the Merkle check, and the
\* same leaf and branch along a path shifted by one bit do not reproduce StateRoot.
C8_ShiftedPathFails ==
    ({"verifyNextSyncCommitteeMerkleProof", "ShiftedWalk"} \subseteq fn /\ CorrectProof) =>
        /\ ret.ok
        /\ ret.shifted # arg.StateRoot

\* the levels at which a path departs from the fixed path
DifferingLevels(p) == {i \in 1..BranchLen : p[i] # path[i]}

\* C8 amended: a correct inclusion proof satisfies the Merkle check, and the same
\* leaf and branch along a path shifted by one bit reproduce StateRoot only when,
\* at every level where the two paths differ, the branch node equals the running
\* hash it is paired with; in every other case the shifted walk does not
\* reproduce StateRoot.
C8_ShiftedPathFailsUnlessTwins ==
    ({"verifyNextSyncCommitteeMerkleProof", "ShiftedWalk"} \subseteq fn /\ CorrectProof) =>
        /\ ret.ok
        /\ (ret.shifted = arg.StateRoot) =
             (\A i \in DifferingLevels(ret.shiftedPath) :
                 arg.NextScBranch[i] = MerkleWalk(arg.NextScRoot, arg.NextScBranch, path, i - 1))

\* a correct proof with no twin nodes, rejected along a shifted path
C8_Witness ==
    /\ {"verifyNextSyncCommitteeMerkleProof", "ShiftedWalk"} \subseteq fn
    /\ CorrectProof
    /\ ret.ok
    /\ \A i \in 1..BranchLen : arg.NextScBranch[i] = ConstChunk(i)
    /\ ret.shifted # arg.StateRoot

(* Block root: computeBlockRoot against the SSZ hash tree root *)

Uint64Values ==
    {Uint64(0, 0, 0, 0), Uint64(8192, 138, 0, 0), Uint64(513, 1027, 1541, 2055),
     Uint64(65535, 65535, 65535, 65535), Uint64(0, 0, 0, 32768)}

Roots == {ConstChunk(17), ConstChunk(255)}

InitBlockRoot ==
    /\ Idle
    /\ fn = {}
    /\ arg \in [Slot : Uint64Values, ProposerIndex : Uint64Values,
                ParentRoot : Roots, StateRoot : Roots, BodyRoot : Roots]
    /\ ret = [circuit |-> <<>>, native |-> <<>>]

ApplyComputeBlockRoot ==
    /\ "computeBlockRoot" \notin fn
    /\ fn' = fn \cup {"computeBlockRoot"}
    /\ ret' = [ret EXCEPT !.circuit = computeBlockRoot(arg)]
    /\ UNCHANGED <<arg, lifecycleVars, processVars>>

ApplyHeaderHashTreeRoot ==
    /\ "HashTreeRoot" \notin fn
    /\ fn' = fn \cup {"HashTreeRoot"}
    /\ ret' = [ret EXCEPT !.native = HeaderHashTreeRoot(arg)]
    /\ UNCHANGED <<arg, lifecycleVars, processVars>>

NextBlockRoot ==
    \/ ApplyComputeBlockRoot
    \/ ApplyHeaderHashTreeRoot

SpecBlockRoot == InitBlockRoot /\ [][NextBlockRoot]_vars

\* one compression of exactly 64 input bytes
H64(left, right) == Sha256(left \o right, 64)

\* the 8 little-endian bytes of a 64-bit value followed by 24 zero bytes
LittleEndianChunk(v) ==
    [i \in 1..32 |-> IF i <= 8 THEN (v[((i - 1) \div 2) + 1] \div (IF i % 2 = 1 THEN 1 ELSE 256)) % 256
                     ELSE 0]

\* C9: computeBlockRoot returns
\* H(H(H(slotChunk, proposerChunk), H(ParentRoot, StateRoot)), H(H(BodyRoot, zero), H(zero, zero)))
\* with slotChunk and proposerChunk the 8 little-endian bytes of the value followed
\* by 24 zero bytes, and every one of the seven compressions takes 64 input bytes.
C9_BlockRootIsMerkleization ==
    LET zero == [i \in 1..32 |-> 0]
    IN "computeBlockRoot" \in fn =>
        /\ ret.circuit =
             H64(H64(H64(LittleEndianChunk(arg.Slot), LittleEndianChunk(arg.ProposerIndex)),
                     H64(arg.ParentRoot, arg.StateRoot)),
                 H64(H64(arg.BodyRoot, zero), H64(zero, zero)))
        /\ Cardinality({i \in DOMAIN ret.circuit : ret.circuit[i] = HashTag}) = 7
        /\ \A i \in DOMAIN ret.circuit : ret.circuit[i] = HashTag => ret.circuit[i + 1] = 64
        /\ ("HashTreeRoot" \in fn => ret.circuit = ret.native)

\* a header whose slot has eight different bytes, hashed by both implementations
C9_Witness ==
    /\ fn = {"computeBlockRoot", "HashTreeRoot"}
    /\ arg.Slot = Uint64(513, 1027, 1541, 2055)
    /\ arg.ProposerIndex = Uint64(8192, 138, 0, 0)
    /\ SubSeq(serializeUint64ToChunk(arg.Slot), 1, 8) = <<1, 2, 3, 4, 5, 6, 7, 8>>
    /\ ret.circuit = ret.native

(* Committee commitment: verifyScPubKeysHash against ComputeScPubKeysHash *)

InitCommit ==
    /\ Idle
    /\ fn = {}
    /\ \E keys \in KeyVectors, honest \in BOOLEAN :
         arg = [ScPubKeys |-> keys,
                ScPubKeysHash |-> IF honest THEN ComputeScPubKeysHash(keys) ELSE Sha256(<<>>, 0)]
    /\ ret = [ok |-> FALSE, preimage |-> <<>>, native |-> <<>>]

ApplyVerifyScPubKeysHash ==
    /\ "verifyScPubKeysHash" \notin fn
    /\ fn' = fn \cup {"verifyScPubKeysHash"}
    /\ ret' = [ret EXCEPT !.ok = verifyScPubKeysHash(arg),
                          !.preimage = ScPubKeysPreimage(arg.ScPubKeys)]
    /\ UNCHANGED <<arg, lifecycleVars, processVars>>

ApplyComputeScPubKeysHash ==
    /\ "ComputeScPubKeysHash" \notin fn
    /\ fn' = fn \cup {"ComputeScPubKeysHash"}
    /\ ret' = [ret EXCEPT !.native = ComputeScPubKeysHash(arg.ScPubKeys)]
    /\ UNCHANGED <<arg, lifecycleVars, processVars>>

NextCommit ==
    \/ ApplyVerifyScPubKeysHash
    \/ ApplyComputeScPubKeysHash

SpecCommit == InitCommit /\ [][NextCommit]_vars

\* the 8 big-endian bytes of a 64-bit limb
BigEndian8(limb) ==
    [i \in 1..8 |-> (limb[((8 - i) \div 2) + 1] \div (IF (8 - i) % 2 = 0 THEN 1 ELSE 256)) % 256]

\* per key, in index order: limb `first` then limb `second` of x, 8 big-endian bytes each
LimbPreimage(keys, first, second) ==
    LET RECURSIVE pre(_)
        pre(i) == IF i > Len(keys) THEN <<>>
                  ELSE BigEndian8(XLimbs(keys[i], first)) \o BigEndian8(XLimbs(keys[i], second))
                       \o pre(i + 1)
    IN pre(1)

\* C10 as stated: the preimage holds, per key in index order, the two
\* most-significant 64-bit limbs of x as 8 big-endian bytes each, and the hash of
\* the preimage is asserted equal to ScPubKeysHash.
C10_PreimageIsTopLimbs ==
    "verifyScPubKeysHash" \in fn =>
        /\ ret.preimage = LimbPreimage(arg.ScPubKeys, NbLimbs - 1, NbLimbs - 2)
        /\ Len(ret.preimage) = 16 * CommitteeSize
        /\ ret.ok = (Sha256(ret.preimage, Len(ret.preimage)) = arg.ScPubKeysHash)

\* C10 amended: the preimage holds, per key in index order, the two
\* least-significant 64-bit limbs of x, Limbs[1] then Limbs[0], as 8 big-endian
\* bytes each (bytes 32..47 of the 48-byte big-endian x, 16 bytes per key), and the
\* hash of the preimage is asserted equal to ScPubKeysHash.
C10_PreimageIsLowLimbs ==
    "verifyScPubKeysHash" \in fn =>
        /\ ret.preimage = LimbPreimage(arg.ScPubKeys, 1, 0)
        /\ Len(ret.preimage) = 16 * CommitteeSize
        /\ \A k \in Indices :
             SubSeq(ret.preimage, 16 * (k - 1) + 1, 16 * k) = SubSeq(XBytes(arg.ScPubKeys[k]), 33, 48)
        /\ ret.ok = (Sha256(ret.preimage, Len(ret.preimage)) = arg.ScPubKeysHash)

\* the commitment of the off-circuit hash accepted for keys with different limbs
C10_Witness ==
    /\ "verifyScPubKeysHash" \in fn
    /\ ret.ok
    /\ arg.ScPubKeysHash = ComputeScPubKeysHash(arg.ScPubKeys)
    /\ \E k \in Indices : XLimbs(arg.ScPubKeys[k], 1) # XLimbs(arg.ScPubKeys[k], NbLimbs - 1)

(* Committee commitment of two key sets that differ in one key *)

\* pairs of key vectors that differ at exactly one index
InitCommitPair ==
    /\ Idle
    /\ fn = {}
    /\ \E keys \in KeyVectors, i \in Indices, other \in ValidKeys :
         /\ other # keys[i]
         /\ arg = [first |-> keys, second |-> [keys EXCEPT ![i] = other], index |-> i]
    /\ ret = [first |-> <<>>, second |-> <<>>, ok |-> FALSE]

\* ComputeScPubKeysHash on both key sets
ApplyComputeScPubKeysHashTwice ==
    /\ "ComputeScPubKeysHash" \notin fn
    /\ fn' = fn \cup {"ComputeScPubKeysHash"}
    /\ ret' = [ret EXCEPT !.first = ComputeScPubKeysHash(arg.first),
                          !.second = ComputeScPubKeysHash(arg.second)]
    /\ UNCHANGED <<arg, lifecycleVars, processVars>>

\* verifyScPubKeysHash on the second key set against the commitment of the first
ApplyVerifyScPubKeysHashOther ==
    /\ "verifyScPubKeysHash" \notin fn
    /\ fn' = fn \cup {"verifyScPubKeysHash"}
    /\ ret' = [ret EXCEPT !.ok =
                 verifyScPubKeysHash([ScPubKeys |-> arg.second,
                                      ScPubKeysHash |-> ComputeScPubKeysHash(arg.first)])]
    /\ UNCHANGED <<arg, lifecycleVars, processVars>>

NextCommitPair ==
    \/ ApplyComputeScPubKeysHashTwice
    \/ ApplyVerifyScPubKeysHashOther

SpecCommitPair == InitCommitPair /\ [][NextCommitPair]_vars

\* C11: for two key sets that differ in exactly one key the commitments of
\* ComputeScPubKeysHash and verifyScPubKeysHash are different: the hash of the
\* second set is not the hash of the first, and the circuit does not accept the
\* second set against the commitment of the first.
C11_OneKeyChangesCommitment ==
    /\ "ComputeScPubKeysHash" \in fn => ret.first # ret.second
    /\ "verifyScPubKeysHash" \in fn => ~ret.ok

(* Public inputs: the circuit's public witness against the contract's input array *)

\* 32-byte values with distinct bytes
ByteArrays ==
    {[i \in 1..ChunkLen |-> (m * i + c) % 256] : m \in {0, 1, 7}, c \in {0, 100, 255}}

\* a full assignment whose private fields hold values that are no byte of the public ones
InitPublic ==
    /\ Idle
    /\ fn = {}
    /\ \E hash \in ByteArrays, root \in ByteArrays, sig \in ValidKeys :
         arg = [Slot |-> <<1000>>, ProposerIndex |-> <<1001>>,
                ParentRoot |-> ConstChunk(1002), StateRoot |-> ConstChunk(1003),
                BodyRoot |-> ConstChunk(1004), ScPubKeys |-> [i \in Indices |-> 1005],
                ScBits |-> [i \in Indices |-> 1006], AggregatedSig |-> <<1006 + sig>>,
                NextScBranch |-> ConstChunk(1020),
                ScPubKeysHash |-> hash, NextScRoot |-> root]
    /\ ret = [public |-> <<>>, input |-> <<>>]

ApplyPublicOnly ==
    /\ "PublicOnly" \notin fn
    /\ fn' = fn \cup {"PublicOnly"}
    /\ ret' = [ret EXCEPT !.public = PublicOnly(arg)]
    /\ UNCHANGED <<arg, lifecycleVars, processVars>>

\* updateSyncCommittee with the stored hash and the recomputed root of the same update
ApplyVerifierInput ==
    /\ "updateSyncCommittee" \notin fn
    /\ fn' = fn \cup {"updateSyncCommittee"}
    /\ ret' = [ret EXCEPT !.input = VerifierInput(arg.ScPubKeysHash, arg.NextScRoot)]
    /\ UNCHANGED <<arg, lifecycleVars, processVars>>

NextPublic ==
    \/ ApplyPublicOnly
    \/ ApplyVerifierInput

SpecPublic == InitPublic /\ [][NextPublic]_vars

XmdMessages ==
    {[i \in 1..ChunkLen |-> (m * i + c) % 256] : m \in {0, 7}, c \in {0, 255}}
XmdLengths ==
    (-2..40) \cup {255, 256, 257, maxLen - 1, maxLen, maxLen + 1, 2 * maxLen}

NoXmd == [uniform |-> <<>>, err |-> "none", hashes |-> 0, indexBytes |-> <<>>]

InitXMD ==
    /\ Idle
    /\ fn = {}
    /\ \E msg \in XmdMessages, lenInBytes \in XmdLengths :
         arg = [msg |-> msg, lenInBytes |-> lenInBytes]
    /\ ret = [xmd |-> NoXmd, field |-> [err |-> "none", u |-> <<>>, xmd |-> NoXmd]]

ApplyExpandMessageXMD ==
    /\ "expandMessageXMD_SHA256" \notin fn
    /\ fn' = fn \cup {"expandMessageXMD_SHA256"}
    /\ ret' = [ret EXCEPT !.xmd = expandMessageXMD_SHA256(arg.msg, dstBytes, arg.lenInBytes)]
    /\ UNCHANGED <<arg, lifecycleVars, processVars>>

ApplyHashToFieldBLS12381Fp2 ==
    /\ "hashToFieldBLS12381Fp2" \notin fn
    /\ fn' = fn \cup {"hashToFieldBLS12381Fp2"}
    /\ ret' = [ret EXCEPT !.field = hashToFieldBLS12381Fp2(arg.msg)]
    /\ UNCHANGED <<arg, lifecycleVars, processVars>>

NextXMD ==
    \/ ApplyExpandMessageXMD
    \/ ApplyHashToFieldBLS12381Fp2

SpecXMD == InitXMD /\ [][NextXMD]_vars

\* C13: for every lenInBytes in 1..255*32 expandMessageXMD_SHA256 returns exactly
\* lenInBytes bytes, the first lenInBytes bytes of b_1 || ... || b_ell with
\* ell = ceil(lenInBytes / 32) and the blocks of RFC 9380; for the circuit's
\* lenInBytes = 256 this is 8 blocks and 9 hash invocations.
C13_ExpandMessageIsRfc ==
    /\ ("expandMessageXMD_SHA256" \in fn /\ arg.lenInBytes \in 1..(255 * 32)) =>
         /\ ret.xmd.err = "nil"
         /\ Len(ret.xmd.uniform) = arg.lenInBytes
         /\ ret.xmd.uniform = RfcUniform(arg.msg, arg.lenInBytes)
    /\ "hashToFieldBLS12381Fp2" \in fn =>
         /\ ret.field.err = "nil"
         /\ ret.field.xmd.uniform = RfcUniform(arg.msg, 256)
         /\ Len(ret.field.xmd.uniform) = 8 * 32
         /\ ret.field.xmd.hashes = 9

\* the longest accepted length, 255 chained blocks, and the circuit's own call
C13_Witness ==
    /\ fn = {"expandMessageXMD_SHA256", "hashToFieldBLS12381Fp2"}
    /\ arg.lenInBytes = 255 * 32
    /\ Len(ret.xmd.uniform) = 255 * 32
    /\ ret.xmd.uniform[1] # ret.xmd.uniform[33]
    /\ ret.field.xmd.hashes = 9

\* C14: expandMessageXMD_SHA256 returns an error and no output exactly when
\* lenInBytes <= 0 or lenInBytes > 255*32; for every accepted length each block
\* index written into a hash input is the index itself, at most 255.
C14_LengthRangeAndIndexByte ==
    "expandMessageXMD_SHA256" \in fn =>
        /\ ret.xmd.err # "nil" <=> (arg.lenInBytes <= 0 \/ arg.lenInBytes > 255 * 32)
        /\ ret.xmd.err # "nil" => ret.xmd.uniform = <<>> /\ ret.xmd.hashes = 0
        /\ ret.xmd.err = "nil" =>
             /\ Len(ret.xmd.indexBytes) = (arg.lenInBytes + 31) \div 32
             /\ \A i \in 1..Len(ret.xmd.indexBytes) :
                  ret.xmd.indexBytes[i] = i /\ ret.xmd.indexBytes[i] <= 255

\* a length one above the limit is refused, with no bytes produced
C14_Witness ==
    /\ "expandMessageXMD_SHA256" \in fn
    /\ arg.lenInBytes = 255 * 32 + 1
    /\ ret.xmd.err # "nil"
    /\ ret.xmd.uniform = <<>>

(* hashToG2InCircuit against bls12381.HashToG2 *)

\* 32-byte signing roots
SigningRoots ==
    {[i \in 1..ChunkLen |-> (m * i + c) % 256] : m \in 0..7, c \in {0, 1, 2, 77, 128, 200, 254, 255}}

InitHashToG2 ==
    /\ Idle
    /\ fn = {}
    /\ \E signingRoot \in SigningRoots : arg = [signingRoot |-> signingRoot]
    /\ ret = [circuit |-> OffGroup, native |-> OffGroup]

ApplyHashToG2InCircuit ==
    /\ "hashToG2InCircuit" \notin fn
    /\ fn' = fn \cup {"hashToG2InCircuit"}
    /\ ret' = [ret EXCEPT !.circuit = hashToG2InCircuit(arg.signingRoot)]
    /\ UNCHANGED <<arg, lifecycleVars, processVars>>

\* verifySyncAggregate: bls12381.HashToG2(signingRoot[:], dst)
ApplyHashToG2 ==
    /\ "HashToG2" \notin fn
    /\ fn' = fn \cup {"HashToG2"}
    /\ ret' = [ret EXCEPT !.native = HashToG2(arg.signingRoot)]
    /\ UNCHANGED <<arg, lifecycleVars, processVars>>

NextHashToG2 ==
    \/ ApplyHashToG2InCircuit
    \/ ApplyHashToG2

SpecHashToG2 == InitHashToG2 /\ [][NextHashToG2]_vars

\* C15: for every 32-byte signing root and the ETH2 tag, the point returned by
\* hashToG2InCircuit is the point bls12381.HashToG2 returns for the same input,
\* and the field elements of the circuit are those of RFC 9380 hash_to_field.
C15_CircuitHashEqualsNative ==
    /\ fn = {"hashToG2InCircuit", "HashToG2"} =>
         /\ ret.circuit = ret.native
         /\ ret.circuit \in ValidKeys
    /\ "hashToG2InCircuit" \in fn =>
         hashToFieldBLS12381Fp2(arg.signingRoot).u = RfcHashToField(arg.signingRoot)

\* both implementations applied to a signing root whose point is not the point of
\* the all-zero root
C15_Witness ==
    /\ fn = {"hashToG2InCircuit", "HashToG2"}
    /\ ret.circuit = ret.native
    /\ ret.circuit \in ValidKeys
    /\ ret.circuit # hashToG2InCircuit(ConstChunk(0))
    /\ arg.signingRoot[1] # arg.signingRoot[2]

(* Setup entry points: onceSetupCircuit of the tests and SetupCircuit of setup.go *)

\* the randomness groth16.Setup can draw; a key pair is named by it
MaxKeySeeds == 4
KeySeeds == 1..MaxKeySeeds

\* frontend.Compile: the constraint system is a fixed function of the circuit
CompiledCircuit == 1

\* the key randomness that is in no file and in no variable of the process
FreshSeeds ==
    KeySeeds \ {disk.test.pk, disk.test.vk, disk.tool.pk, disk.tool.vk,
                mem.blsVerifierPK, mem.blsVerifierVK}

NoFiles == [ccs |-> 0, pk |-> 0, vk |-> 0]
NoCall == [entry |-> "none", before |-> NoFiles, compiled |-> FALSE, generated |-> FALSE, vk |-> 0]
NilGlobals == [blsVerifierCCS |-> 0, blsVerifierPK |-> 0, blsVerifierVK |-> 0]

\* a fresh checkout: no build artifact, the package variables are nil
InitSetup ==
    /\ pc = "idle"
    /\ witness = NoWitness
    /\ proof = NoProof
    /\ err = "nil"
    /\ scenario = "none"
    /\ fn = {}
    /\ arg = <<>>
    /\ ret = NoCall
    /\ disk = [test |-> NoFiles, tool |-> NoFiles]
    /\ mem = NilGlobals

\* a new test process: the package variables are nil again
StartTestProcess ==
    /\ mem # NilGlobals
    /\ mem' = NilGlobals
    /\ UNCHANGED <<disk, ret, fn, arg, lifecycleVars>>

\* onceSetupCircuit: returns at once when blsVerifierCCS is set; compiles when the
\* .ccs file cannot be opened, otherwise loads it; runs groth16.Setup when the .pk
\* or the .vk file cannot be opened, otherwise loads both
onceSetupCircuit ==
    IF mem.blsVerifierCCS # 0
    THEN /\ ret' = [entry |-> "onceSetupCircuit", before |-> disk.test, compiled |-> FALSE,
                    generated |-> FALSE, vk |-> mem.blsVerifierVK]
         /\ UNCHANGED <<disk, mem, fn, arg, lifecycleVars>>
    ELSE LET compiles == disk.test.ccs = 0
             generates == disk.test.pk = 0 \/ disk.test.vk = 0
             ccs == IF compiles THEN CompiledCircuit ELSE disk.test.ccs
         IN \E seed \in (IF generates THEN FreshSeeds ELSE {0}) :
              LET pk == IF generates THEN seed ELSE disk.test.pk
                  vk == IF generates THEN seed ELSE disk.test.vk
              IN /\ disk' = [disk EXCEPT !.test = [ccs |-> ccs, pk |-> pk, vk |-> vk]]
                 /\ mem' = [blsVerifierCCS |-> ccs, blsVerifierPK |-> pk, blsVerifierVK |-> vk]
                 /\ ret' = [entry |-> "onceSetupCircuit", before |-> disk.test,
                            compiled |-> compiles, generated |-> generates, vk |-> vk]
                 /\ UNCHANGED <<fn, arg, lifecycleVars>>

\* SetupCircuit of setup.go: frontend.Compile, os.Create and WriteTo of the .ccs
\* file, groth16.Setup, os.Create and WriteTo of the .pk and .vk files
SetupCircuit ==
    \E seed \in FreshSeeds :
        /\ disk' = [disk EXCEPT !.tool = [ccs |-> CompiledCircuit, pk |-> seed, vk |-> seed]]
        /\ ret' = [entry |-> "SetupCircuit", before |-> disk.tool, compiled |-> TRUE,
                   generated |-> TRUE, vk |-> seed]
        /\ UNCHANGED <<mem, fn, arg, lifecycleVars>>

\* a build artifact is deleted to force recompilation or regeneration
RemoveCacheFile ==
    /\ \E set \in {"test", "tool"}, file \in {"ccs", "pk", "vk"} :
         /\ disk[set][file] # 0
         /\ disk' = [disk EXCEPT ![set][file] = 0]
    /\ UNCHANGED <<mem, ret, fn, arg, lifecycleVars>>

NextSetup ==
    \/ StartTestProcess
    \/ onceSetupCircuit
    \/ SetupCircuit
    \/ RemoveCacheFile

SpecSetup == InitSetup /\ [][NextSetup]_vars

\* C16: every setup entry point compiles the circuit only when no cached
\* constraint-system file is present and runs key generation only when a cached
\* key file is missing; with the cache files present they are loaded, neither
\* Compile nor Setup is run, and the verifying key is the one of the cache.
C16_CacheIsReused ==
    ret.entry # "none" =>
        /\ ret.compiled => ret.before.ccs = 0
        /\ ret.generated => (ret.before.pk = 0 \/ ret.before.vk = 0)
        /\ (ret.before.ccs # 0 /\ ret.before.pk # 0 /\ ret.before.vk # 0) =>
             /\ ~ret.compiled
             /\ ~ret.generated
             /\ ret.vk = ret.before.vk

(* The relayer: RelayerMain, setupCircuit, Run and generateProof *)

\* config.InitPeriod
InitPeriod == 0
\* the last period the model lets the source answer for
MaxPeriod == 2
\* how often the model calls setupCircuit
MaxSetupCalls == 2

\* the bits of the updates of the source: the second member signs
RelayerBits == <<2>>

\* the committee in charge during period p: the committees of consecutive
\* periods differ in every key, and the committee of InitPeriod + 1 is NextCommittee
SyncCommitteeOf(p) == [i \in Indices |-> (((2 * i) + p + 5) % (GroupOrder - 1)) + 1]

\* the update of the beacon chain for every period: the state root of its header
\* holds the committee of the next period, the committee of its period signed
ChainUpdates ==
    [p \in InitPeriod..(MaxPeriod + 1) |->
        LET next == SyncCommitteeOf(p + 1)
            header == [HonestHeader EXCEPT
                         !.StateRoot = IndexWalk(HashTreeRootSyncCommittee(next),
                                                 StateBranch, NextScPosition)]
            signers == Participants(SyncCommitteeOf(p), RelayerBits)
        IN [Slot |-> header.Slot,
            ProposerIndex |-> header.ProposerIndex,
            ParentRoot |-> header.ParentRoot,
            StateRoot |-> header.StateRoot,
            BodyRoot |-> header.BodyRoot,
            NextSyncCommittee |-> next,
            NextSyncCommitteeBranch |-> StateBranch,
            SyncCommitteeBits |-> RelayerBits,
            SyncCommitteeSignature |->
                (signers * HashToG2(nativeSigningRoot(header))) % GroupOrder]]

\* updates whose next_sync_committee.pubkeys does not hold CommitteeSize keys: the
\* JSON list is decoded into a slice of any length
MalformedUpdates(p) ==
    {[ChainUpdates[p] EXCEPT
        !.NextSyncCommittee = SubSeq(ChainUpdates[p].NextSyncCommittee, 1, CommitteeSize - 1)],
     [ChainUpdates[p] EXCEPT
        !.NextSyncCommittee = Append(ChainUpdates[p].NextSyncCommittee,
                                     ChainUpdates[p].NextSyncCommittee[1])]}

\* what fetcher.ScUpdate(p) can answer in the main loop: the update of the chain,
\* the same with a signature that does not deserialize, the same with another
\* signature, the same with a key list of another length
SourceUpdates(p) ==
    {ChainUpdates[p],
     [ChainUpdates[p] EXCEPT !.SyncCommitteeSignature = OffGroup],
     [ChainUpdates[p] EXCEPT
        !.SyncCommitteeSignature = Neg(ChainUpdates[p].SyncCommitteeSignature)]}
    \cup MalformedUpdates(p)

\* what fetcher.ScUpdate can answer for the initial period: the update of the
\* chain, one whose last next-committee key does not parse, one with a key list of
\* another length
InitialUpdates ==
    {ChainUpdates[InitPeriod],
     [ChainUpdates[InitPeriod] EXCEPT
        !.NextSyncCommittee = [k \in Indices |->
                                 IF k = CommitteeSize THEN OffGroup
                                 ELSE ChainUpdates[InitPeriod].NextSyncCommittee[k]]]}
    \cup MalformedUpdates(InitPeriod)

NoUpdate == [Slot |-> <<>>]

\* NewRelayer: only fetcher and config are set
NewRelayer ==
    [ccs |-> 0, pk |-> 0, scPubKeysHash |-> <<>>, currentScPubkeys |-> [i \in Indices |-> 0]]

\* setupCircuit reading the files whether or not r.ccs is set
setupCircuitReloading(r, files) ==
    IF files.ccs = 0 THEN [r |-> r, err |-> "failed to open CCS file", loaded |-> 0]
    ELSE IF files.pk = 0
    THEN [r |-> [r EXCEPT !.ccs = files.ccs], err |-> "failed to open PK file", loaded |-> 1]
    ELSE [r |-> [r EXCEPT !.ccs = files.ccs, !.pk = files.pk], err |-> "nil", loaded |-> 2]

\* setupCircuit: nothing when r.ccs is set, else open and read the .ccs file into
\* r.ccs, then the .pk file into r.pk
setupCircuit(r, files) ==
    IF r.ccs # 0 THEN [r |-> r, err |-> "nil", loaded |-> 0]
    ELSE IF files.ccs = 0 THEN [r |-> r, err |-> "failed to open CCS file", loaded |-> 0]
    ELSE IF files.pk = 0
    THEN [r |-> [r EXCEPT !.ccs = files.ccs], err |-> "failed to open PK file", loaded |-> 1]
    ELSE [r |-> [r EXCEPT !.ccs = files.ccs, !.pk = files.pk], err |-> "nil", loaded |-> 2]

IndexOutOfRange == "panic: index out of range"

\* the loop over the keys storing the parsed key nowhere
parsePubkeysKeepingCurrent(current, pubkeys) ==
    LET bad == {i \in Indices : i > Len(pubkeys) \/ ~SetBytesOk(pubkeys[i])}
        first == IF bad = {} THEN CommitteeSize + 1 ELSE CHOOSE i \in bad : \A j \in bad : i <= j
    IN [keys |-> current,
        err |-> IF bad = {} THEN "nil"
                ELSE IF first > Len(pubkeys) THEN IndexOutOfRange
                ELSE "failed to parse pubkey"]

\* the loop of Run over the 512 keys: currentScPubkeys[i].SetBytes(Pubkeys[i]),
\* return at the first key that does not parse; Pubkeys[i] past the end of the
\* slice is a run-time panic, keys past index 511 are never read
parsePubkeys(current, pubkeys) ==
    LET bad == {i \in Indices : i > Len(pubkeys) \/ ~SetBytesOk(pubkeys[i])}
        first == IF bad = {} THEN CommitteeSize + 1 ELSE CHOOSE i \in bad : \A j \in bad : i <= j
    IN [keys |-> [i \in Indices |-> IF i < first THEN pubkeys[i] ELSE current[i]],
        err |-> IF bad = {} THEN "nil"
                ELSE IF first > Len(pubkeys) THEN IndexOutOfRange
                ELSE "failed to parse pubkey"]

\* where Run is after an error of err: a panic ends the process, an error value
\* is returned to RelayerMain
afterError(e) == IF e = IndexOutOfRange THEN "crashed" ELSE "exited"

\* the update does not hold exactly CommitteeSize next-committee keys
wrongKeyCount(update) == Len(update.NextSyncCommittee) # CommitteeSize

\* the witness generateProof assigns from the update and the fields of the relayer
relayerWitness(r, update) ==
    [AssignWitness(r.currentScPubkeys, update) EXCEPT !.ScPubKeysHash = r.scPubKeysHash]

\* generateProof returning the Solidity bytes of no proof when Prove fails
generateProofIgnoringProve(r, update) ==
    IF ~SetBytesOk(update.SyncCommitteeSignature)
    THEN [proofSolidity |-> NoProof, err |-> "failed to deserialize signature",
          proved |-> FALSE, r |-> r]
    ELSE [proofSolidity |-> [public |-> PublicOnly(relayerWitness(r, update))], err |-> "nil",
          proved |-> TRUE, r |-> r]

\* generateProof: the proof bytes, the error, whether groth16.Prove was called, and
\* the receiver after the call
generateProof(r, update) ==
    IF ~SetBytesOk(update.SyncCommitteeSignature)
    THEN [proofSolidity |-> NoProof, err |-> "failed to deserialize signature",
          proved |-> FALSE, r |-> r]
    ELSE LET w == relayerWitness(r, update)
         IN IF Define(w) # "nil"
            THEN [proofSolidity |-> NoProof, err |-> "proof generation failed",
                  proved |-> TRUE, r |-> r]
            ELSE [proofSolidity |-> [public |-> PublicOnly(w)], err |-> "nil",
                  proved |-> TRUE, r |-> r]

NoHistory ==
    [setupCalls |-> 0, loads |-> 0, attempted |-> {}, failed |-> {}, used |-> {},
     malformed |-> FALSE, prev |-> <<>>, calls |-> <<>>, written |-> <<>>]

\* RelayerMain after NewRelayer; the cache files of the tests may or may not exist
InitRelayer ==
    /\ pc = "main"
    /\ witness = NoWitness
    /\ proof = NoProof
    /\ err = "nil"
    /\ scenario = "none"
    /\ fn = {}
    /\ arg = <<>>
    /\ ret = NoHistory
    /\ \E ccs \in {0, CompiledCircuit}, pk \in {0, 1} : disk = [ccs |-> ccs, pk |-> pk, proofs |-> {}]
    /\ mem = [r |-> NewRelayer, period |-> InitPeriod, update |-> NoUpdate]

\* RelayerMain: relayer.setupCircuit(), log.Fatalf on an error; a later call finds
\* r.ccs set
CallSetupCircuit ==
    /\ pc \in {"main", "run"}
    /\ ret.setupCalls < MaxSetupCalls
    /\ LET res == setupCircuit(mem.r, disk)
       IN /\ mem' = [mem EXCEPT !.r = res.r]
          /\ ret' = [ret EXCEPT !.setupCalls = @ + 1,
                                !.loads = @ + (IF res.loaded > 0 THEN 1 ELSE 0)]
          /\ err' = res.err
          /\ pc' = IF res.err = "nil" THEN "run" ELSE "exited"
    /\ UNCHANGED <<disk, witness, proof, scenario, fn, arg>>

\* the key files of the build directory are regenerated while the relayer runs
RegenerateKeyFiles ==
    /\ pc # "exited"
    /\ disk.pk # 0
    /\ \E seed \in KeySeeds \ {disk.pk, mem.r.pk} : disk' = [disk EXCEPT !.pk = seed]
    /\ UNCHANGED <<mem, ret, fn, arg, lifecycleVars>>

\* Run up to the main loop: the initial fetch, the keys and the hash of the
\* initial update, period++
RunInitialUpdate ==
    /\ pc = "run"
    /\ \/ /\ err' = "failed to fetch initial update"
          /\ pc' = "exited"
          /\ UNCHANGED <<mem, ret>>
       \/ \E initialUpdate \in InitialUpdates :
            /\ ret' = [ret EXCEPT !.malformed = @ \/ wrongKeyCount(initialUpdate),
                                  !.prev = initialUpdate.NextSyncCommittee]
            /\ LET parsed == parsePubkeys(mem.r.currentScPubkeys, initialUpdate.NextSyncCommittee)
               IN IF parsed.err # "nil"
                  THEN /\ mem' = [mem EXCEPT !.r.currentScPubkeys = parsed.keys]
                       /\ err' = parsed.err
                       /\ pc' = afterError(parsed.err)
                  ELSE /\ mem' = [mem EXCEPT !.r.currentScPubkeys = parsed.keys,
                                             !.r.scPubKeysHash = ComputeScPubKeysHash(parsed.keys),
                                             !.period = @ + 1]
                       /\ err' = "nil"
                       /\ pc' = "fetch"
    /\ UNCHANGED <<disk, witness, proof, scenario, fn, arg>>

\* main loop: fetcher.ScUpdate(period) returns an error, which is logged
FetchFails ==
    /\ pc = "fetch"
    /\ pc' = "sleep"
    /\ err' = "failed to fetch update"
    /\ UNCHANGED <<disk, mem, ret, witness, proof, scenario, fn, arg>>

\* time.Sleep(1000 * time.Millisecond), then the next pass of the loop
Sleep ==
    /\ pc = "sleep"
    /\ pc' = "fetch"
    /\ err' = "nil"
    /\ UNCHANGED <<disk, mem, ret, witness, proof, scenario, fn, arg>>

\* main loop: fetcher.ScUpdate(period) returns an update
FetchAnswers ==
    /\ pc = "fetch"
    /\ mem.period <= MaxPeriod
    /\ \E update \in SourceUpdates(mem.period) : mem' = [mem EXCEPT !.update = update]
    /\ pc' = "fetched"
    /\ err' = "nil"
    /\ UNCHANGED <<disk, ret, witness, proof, scenario, fn, arg>>

\* main loop: r.generateProof(update), return on an error. HashTreeRoot of a key
\* list of another length is library code: it returns a root or it panics
CallGenerateProof ==
    /\ pc = "fetched"
    /\ \/ LET res == generateProof(mem.r, mem.update)
          IN /\ mem' = [mem EXCEPT !.r = res.r]
             /\ proof' = res.proofSolidity
             /\ ret' = [ret EXCEPT !.attempted = @ \cup {mem.period},
                                   !.calls = Append(@, mem.period),
                                   !.failed = IF res.err = "proof generation failed"
                                              THEN @ \cup {mem.period} ELSE @,
                                   !.used = IF res.proved THEN @ \cup {<<mem.r.ccs, mem.r.pk>>} ELSE @,
                                   !.malformed = @ \/ wrongKeyCount(mem.update)]
             /\ err' = res.err
             /\ pc' = IF res.err = "nil" THEN "proved" ELSE "exited"
       \/ /\ wrongKeyCount(mem.update)
          /\ SetBytesOk(mem.update.SyncCommitteeSignature)
          /\ ret' = [ret EXCEPT !.attempted = @ \cup {mem.period},
                                !.calls = Append(@, mem.period), !.malformed = TRUE]
          /\ err' = IndexOutOfRange
          /\ pc' = "crashed"
          /\ UNCHANGED <<mem, proof>>
    /\ UNCHANGED <<disk, witness, scenario, fn, arg>>

\* main loop after generateProof: the proof file, the keys and the hash of the
\* next committee, period++
SaveProofAndAdvance ==
    /\ pc = "proved"
    /\ disk' = [disk EXCEPT !.proofs = @ \cup {mem.period}]
    /\ ret' = [ret EXCEPT !.written = Append(@, mem.period),
                          !.prev = mem.update.NextSyncCommittee]
    /\ LET parsed == parsePubkeys(mem.r.currentScPubkeys, mem.update.NextSyncCommittee)
       IN IF parsed.err # "nil"
          THEN /\ mem' = [mem EXCEPT !.r.currentScPubkeys = parsed.keys]
               /\ err' = parsed.err
               /\ pc' = afterError(parsed.err)
          ELSE /\ mem' = [mem EXCEPT !.r.currentScPubkeys = parsed.keys,
                                     !.r.scPubKeysHash = ComputeScPubKeysHash(parsed.keys),
                                     !.period = @ + 1,
                                     !.update = NoUpdate]
               /\ err' = "nil"
               /\ pc' = "sleep"
    /\ UNCHANGED <<witness, proof, scenario, fn, arg>>

NextRelayer ==
    \/ CallSetupCircuit
    \/ RegenerateKeyFiles
    \/ RunInitialUpdate
    \/ FetchFails
    \/ Sleep
    \/ FetchAnswers
    \/ CallGenerateProof
    \/ SaveProofAndAdvance

SpecRelayer == InitRelayer /\ [][NextRelayer]_vars

\* what a return of generateProof to Run can leave behind: the steps of
\* CallGenerateProof are steps of this action, which reads no constraint
GenerateProofReturns ==
    /\ pc = "fetched"
    /\ pc' \in {"proved", "exited", "crashed"}
    /\ err' \in {"nil", "failed to deserialize signature", "proof generation failed",
                 IndexOutOfRange}
    /\ proof' \in {proof, NoProof, [public |-> PublicOnly(relayerWitness(mem.r, mem.update))]}
    /\ ret' \in {[ret EXCEPT !.attempted = @ \cup {mem.period}, !.failed = f, !.used = u,
                              !.malformed = m, !.calls = Append(@, mem.period)] :
                   f \in {ret.failed, ret.failed \cup {mem.period}},
                   u \in {ret.used, ret.used \cup {<<mem.r.ccs, mem.r.pk>>}},
                   m \in BOOLEAN}
    /\ UNCHANGED <<disk, mem, witness, scenario, fn, arg>>

\* the goroutine of Run keeps running (it sleeps, asks the source, proves and
\* saves), and the source answers again and again while it is asked
SpecRelayerFair ==
    /\ SpecRelayer
    /\ WF_vars(Sleep)
    /\ WF_vars(GenerateProofReturns)
    /\ WF_vars(SaveProofAndAdvance)
    /\ WF_vars(FetchFails \/ FetchAnswers)
    /\ SF_vars(FetchAnswers)

\* C17: the constraint system and the proving key are loaded once by setupCircuit
\* (a later call with r.ccs set loads nothing) and never modified afterwards; every
\* generateProof call of every period uses the same ccs and pk, and generateProof
\* changes no field of the Relayer.
C17_KeysLoadedOnceAndReadOnly ==
    /\ [](ret.loads <= 1 /\ Cardinality(ret.used) <= 1)
    /\ [][/\ mem.r.ccs # 0 => mem'.r.ccs = mem.r.ccs
          /\ mem.r.pk # 0 => mem'.r.pk = mem.r.pk
          /\ (pc = "fetched" /\ pc' # pc) => mem'.r = mem.r]_vars

\* setupCircuit called twice, the key file regenerated since, and proofs attempted
\* in two periods with the one key that was loaded
C17_Witness ==
    /\ ret.setupCalls = 2
    /\ ret.loads = 1
    /\ ret.attempted = {1, 2}
    /\ Cardinality(ret.used) = 1
    /\ disk.pk # mem.r.pk

\* C18: a witness-build failure for one update (a signature that does not
\* deserialize) is reported and only that update is skipped: Run does not
\* terminate because of it and goes on to fetch later updates.
C18_WitnessFailureSkipped ==
    [][(/\ pc = "fetched"
        /\ pc' # pc
        /\ ~SetBytesOk(mem.update.SyncCommitteeSignature))
       => pc' \in {"sleep", "fetch"}]_vars

\* C19: whenever Prove fails for the update of period p, generateProof returns a
\* non-nil error to Run, and Run writes no proof file for p, does not advance the
\* period and does not replace the stored committee keys or hash. Prove is reached
\* when the signature deserializes and the witness is assigned without a panic.
C19_ProveFailureSurfaced ==
    /\ [](ret.failed \cap disk.proofs = {})
    /\ [](mem.period \in ret.failed => (pc = "exited" /\ err # "nil"))
    /\ [][(/\ pc = "fetched"
           /\ pc' \notin {pc, "crashed"}
           /\ SetBytesOk(mem.update.SyncCommitteeSignature)
           /\ Define(relayerWitness(mem.r, mem.update)) # "nil")
          => /\ err' # "nil"
             /\ proof' = NoProof
             /\ disk'.proofs = disk.proofs
             /\ mem'.period = mem.period
             /\ mem'.r.currentScPubkeys = mem.r.currentScPubkeys
             /\ mem'.r.scPubKeysHash = mem.r.scPubKeysHash]_vars

\* the proof of period 1 was saved, Prove failed for the update of period 2
C19_Witness ==
    /\ pc = "exited"
    /\ err = "proof generation failed"
    /\ mem.period = 2
    /\ ret.failed = {2}
    /\ disk.proofs = {1}

\* C20: whenever fetching an update from the source fails, Run retries the fetch
\* for the same period after the fixed interval, with the period and the stored
\* committee state unchanged, instead of terminating; if the source eventually
\* answers, a proof for that period is eventually attempted.
C20_FetchFailureRetried ==
    /\ [][(/\ pc \in {"run", "fetch"}
           /\ err' \in {"failed to fetch initial update", "failed to fetch update"})
          => /\ pc' = "sleep"
             /\ mem' = mem
             /\ disk' = disk]_vars
    /\ \A p \in 1..MaxPeriod :
         /\ (pc = "sleep" /\ mem.period = p) ~> (pc = "fetch" /\ mem.period = p)
         /\ (pc = "fetch" /\ mem.period = p) ~> (p \in ret.attempted)

\* C21: an update whose next_sync_committee does not hold exactly CommitteeSize
\* keys is detected while the relayer builds its state and witness from it and is
\* reported to the caller as an error value, not a crash, and the loaded
\* constraint system and proving key are unchanged afterwards.
C21_WrongKeyCountReported ==
    /\ [](ret.malformed => (pc = "exited" /\ err # "nil"))
    /\ [][ret'.malformed => (mem'.r.ccs = mem.r.ccs /\ mem'.r.pk = mem.r.pk)]_vars

\* the bit vector with bit[0] as its only set bit
OnlyFirstBit == [i \in Indices |-> IF i = 1 THEN 1 ELSE 0]

\* C22: when bit[0] is the only bit set, aggregatePubKeys returns exactly
\* ScPubKeys[0] and the curve addition gate is never applied to the accumulator
\* during the whole loop over the later keys.
C22_OnlyFirstBitNeverAdds ==
    ("aggregatePubKeys" \in fn /\ arg.bits = OnlyFirstBit)
        => /\ ret.circuit.accumulator = arg.keys[1]
           /\ ret.circuit.adds = <<>>

(* bytesToBLS12381FpMod on byte sequences of up to 64 bytes *)

\* the length of one slice of hash_to_field
MaxFpInput == 64
FpInputBytes == {0, 1, 3, 241, 255}
FpInputs ==
    UNION {[1..n -> FpInputBytes] : n \in 0..3}
    \cup {[k \in 1..MaxFpInput |-> (m * k + c) % 256] : m \in {0, 1, 7}, c \in FpInputBytes}

InitFpMod ==
    /\ Idle
    /\ fn = {}
    /\ \E b \in FpInputs : arg = [b |-> b]
    /\ ret = [res |-> <<>>]

\* bytesToBLS12381FpMod on every prefix of the input: entry n + 1 is the result
\* for the first n bytes
ApplyBytesToBLS12381FpMod ==
    /\ "bytesToBLS12381FpMod" \notin fn
    /\ fn' = fn \cup {"bytesToBLS12381FpMod"}
    /\ ret' = [res |-> [n \in 1..(Len(arg.b) + 1) |->
                          bytesToBLS12381FpMod(SubSeq(arg.b, 1, n - 1))]]
    /\ UNCHANGED <<arg, lifecycleVars, processVars>>

NextFpMod == ApplyBytesToBLS12381FpMod

SpecFpMod == InitFpMod /\ [][NextFpMod]_vars

\* the big-endian integer of the first n bytes of b, modulo p: the sum of
\* b[k] * 256^(n-k), every power and every partial sum reduced
BigEndianMod(b, n) ==
    LET RECURSIVE power(_)
        power(e) == IF e = 0 THEN 1 ELSE (256 * power(e - 1)) % FieldModulus
        RECURSIVE sum(_)
        sum(k) == IF k > n THEN 0 ELSE ((b[k] * power(n - k)) + sum(k + 1)) % FieldModulus
    IN sum(1)

\* C23: for every byte sequence b, bytesToBLS12381FpMod returns the reduced
\* representative congruent modulo p to the big-endian integer of b, and so it
\* does for the bytes consumed so far at every pass of the Horner loop.
C23_HornerIsBigEndianMod ==
    "bytesToBLS12381FpMod" \in fn =>
        \A n \in 0..Len(arg.b) :
            /\ ret.res[n + 1] \in 0..(FieldModulus - 1)
            /\ ret.res[n + 1] = BigEndianMod(arg.b, n)

\* a 64-byte input of unequal bytes whose big-endian integer is far above p and
\* whose result is not its last byte
C23_Witness ==
    /\ "bytesToBLS12381FpMod" \in fn
    /\ Len(arg.b) = MaxFpInput
    /\ arg.b[1] = 7
    /\ arg.b[2] = 14
    /\ ret.res[MaxFpInput + 1] # arg.b[MaxFpInput] % FieldModulus
    /\ ret.res[3] # (256 * arg.b[1]) + arg.b[2]

\* the periods InitPeriod + 1 .. InitPeriod + n in order
ConsecutivePeriods(n) == [k \in 1..n |-> InitPeriod + k]

\* C24: at every generateProof call made by Run for period p (p > InitPeriod),
\* currentScPubkeys are the next_sync_committee keys of the update of period p-1
\* (the initial update, or the last update for which a proof file was written),
\* scPubKeysHash equals ComputeScPubKeysHash(currentScPubkeys), and periods are
\* processed in strictly consecutive order with exactly one proof per period.
C24_KeysOfPreviousUpdate ==
    /\ pc = "fetched" =>
         /\ mem.period > InitPeriod
         /\ \A i \in Indices : mem.r.currentScPubkeys[i] = ret.prev[i]
         /\ \A i \in Indices :
              mem.r.currentScPubkeys[i] = ChainUpdates[mem.period - 1].NextSyncCommittee[i]
         /\ mem.r.scPubKeysHash = ComputeScPubKeysHash(mem.r.currentScPubkeys)
         /\ ret.calls = ConsecutivePeriods(mem.period - InitPeriod - 1)
         /\ ret.written = ret.calls
    /\ ret.calls = ConsecutivePeriods(Len(ret.calls))
    /\ ret.written = ConsecutivePeriods(Len(ret.written))
    /\ disk.proofs = {ret.written[k] : k \in 1..Len(ret.written)}
    /\ Len(ret.written) <= Len(ret.calls)

\* generateProof is about to be called for the second period after two
\* committees that differ have been stored in turn
C24_Witness ==
    /\ pc = "fetched"
    /\ mem.period = InitPeriod + 2
    /\ ret.written = <<InitPeriod + 1>>
    /\ mem.r.currentScPubkeys = SyncCommitteeOf(InitPeriod + 2)
    /\ mem.r.currentScPubkeys # SyncCommitteeOf(InitPeriod + 1)
    /\ mem.update = ChainUpdates[InitPeriod + 2]

(* Committee commitment in the contract and in the test helpers *)

\* a 0x-prefixed or bare hex string: digits as 0..15, the letter x as HexX
HexX == 16
HexString(bytes, prefixed) ==
    (IF prefixed THEN <<0, HexX>> ELSE <<>>)
        \o [c \in 1..(2 * Len(bytes)) |->
               IF c % 2 = 1 THEN bytes[(c + 1) \div 2] \div 16 ELSE bytes[c \div 2] % 16]

\* hexToBytes: strips a leading "0x", then parses two digits per byte
hexToBytes(hexString) ==
    LET startsWith0x == Len(hexString) >= 2 /\ hexString[1] = 0 /\ hexString[2] = HexX
        clean == IF startsWith0x THEN SubSeq(hexString, 3, Len(hexString)) ELSE hexString
    IN [i \in 1..(Len(clean) \div 2) |-> 16 * clean[2 * i - 1] + clean[2 * i]]

\* scPubKeysHash hashing the first 16 bytes of every key
scPubKeysHashOfTopBytes(pubkeys) ==
    LET RECURSIVE update(_)
        update(i) == IF i > Len(pubkeys) THEN <<>>
                     ELSE SubSeq(hexToBytes(pubkeys[i]), 1, 16) \o update(i + 1)
        hashed == update(1)
    IN Sha256(hashed, Len(hashed))

\* scPubKeysHash: SHA-256 over hexToBytes(pubkey).slice(32,48) of every key
scPubKeysHash(pubkeys) ==
    LET RECURSIVE update(_)
        update(i) == IF i > Len(pubkeys) THEN <<>>
                     ELSE SubSeq(hexToBytes(pubkeys[i]), 33, 48) \o update(i + 1)
        hashed == update(1)
    IN Sha256(hashed, Len(hashed))

\* syncCommitteeToBytes: the keys' bytes one after the other, then the aggregate key
syncCommitteeToBytes(pubkeys, aggregatePubkey) ==
    LET RECURSIVE enc(_)
        enc(i) == IF i > Len(pubkeys) THEN hexToBytes(aggregatePubkey)
                  ELSE hexToBytes(pubkeys[i]) \o enc(i + 1)
    IN enc(1)

\* EVM calldataload: the 32-byte word at a byte offset, zero past the end
calldataload(data, offset) ==
    [j \in 1..ChunkLen |-> IF offset + j <= Len(data) THEN data[offset + j] ELSE 0]

\* EVM shr(128, w) and shl(128, w) on a 32-byte word
shr128(w) == [j \in 1..ChunkLen |-> IF j <= 16 THEN 0 ELSE w[j - 16]]
shl128(w) == [j \in 1..ChunkLen |-> IF j <= 16 THEN w[j + 16] ELSE 0]

\* EVM mstore: 32 bytes written at a byte offset of the memory region
mstore(memory, offset, w) ==
    [k \in 1..Len(memory) |->
        IF k > offset /\ k <= offset + ChunkLen THEN w[k - offset] ELSE memory[k]]

\* the loop of _pubKeysHash over memory that holds allLimbs and the 16 bytes after
\* it; keyOffset is the offset of the loaded word inside a 48-byte key
pubKeysHashLoop(pubKeys, keyOffset) ==
    LET numPubkeys == CommitteeSize
        RECURSIVE loop(_, _)
        loop(i, memory) ==
            IF i >= numPubkeys \/ Len(memory) = 0 THEN memory
            ELSE loop(i + 1, mstore(memory, i * 16,
                                    shl128(shr128(calldataload(pubKeys, i * FpBytes + keyOffset)))))
        end == loop(0, [k \in 1..(numPubkeys * 16 + 16) |-> 0])
    IN Sha256(SubSeq(end, 1, numPubkeys * 16), numPubkeys * 16)

\* _pubKeysHash loading the word at the start of every key
_pubKeysHashOfKeyStart(pubKeys) == pubKeysHashLoop(pubKeys, 0)

\* _pubKeysHash: the word at byte 32 of every key, its low 16 bytes cleared,
\* stored at 16-byte steps into allLimbs; SHA-256 of allLimbs
_pubKeysHash(pubKeys) == pubKeysHashLoop(pubKeys, 32)

\* the committee as the beacon API serves it: every key in its compressed
\* encoding as a hex string
ApiSyncCommittee(keys, prefixed) ==
    [pubkeys |-> [i \in 1..Len(keys) |-> HexString(BLSPubkey(keys[i]), prefixed)],
     aggregate_pubkey |->
         LET RECURSIVE sum(_)
             sum(i) == IF i > Len(keys) THEN 0 ELSE nativeAdd(keys[i], sum(i + 1))
         IN HexString(BLSPubkey(sum(1)), prefixed)]

InitCommitAll ==
    /\ Idle
    /\ fn = {}
    /\ \E keys \in KeyVectors, prefixed \in BOOLEAN :
         arg = [ScPubKeys |-> keys, sc |-> ApiSyncCommittee(keys, prefixed), prefixed |-> prefixed]
    /\ ret = [circuit |-> <<>>, native |-> <<>>, contract |-> <<>>, test |-> <<>>]

ApplyCircuitCommitment ==
    /\ "verifyScPubKeysHash" \notin fn
    /\ fn' = fn \cup {"verifyScPubKeysHash"}
    /\ ret' = [ret EXCEPT !.circuit = LET pre == ScPubKeysPreimage(arg.ScPubKeys)
                                      IN Sha256(pre, Len(pre))]
    /\ UNCHANGED <<arg, lifecycleVars, processVars>>

ApplyNativeCommitment ==
    /\ "ComputeScPubKeysHash" \notin fn
    /\ fn' = fn \cup {"ComputeScPubKeysHash"}
    /\ ret' = [ret EXCEPT !.native = ComputeScPubKeysHash(arg.ScPubKeys)]
    /\ UNCHANGED <<arg, lifecycleVars, processVars>>

ApplyPubKeysHash ==
    /\ "_pubKeysHash" \notin fn
    /\ fn' = fn \cup {"_pubKeysHash"}
    /\ ret' = [ret EXCEPT !.contract =
                   _pubKeysHash(syncCommitteeToBytes(arg.sc.pubkeys, arg.sc.aggregate_pubkey))]
    /\ UNCHANGED <<arg, lifecycleVars, processVars>>

ApplyScPubKeysHash ==
    /\ "scPubKeysHash" \notin fn
    /\ fn' = fn \cup {"scPubKeysHash"}
    /\ ret' = [ret EXCEPT !.test = scPubKeysHash(arg.sc.pubkeys)]
    /\ UNCHANGED <<arg, lifecycleVars, processVars>>

NextCommitAll ==
    \/ ApplyCircuitCommitment
    \/ ApplyNativeCommitment
    \/ ApplyPubKeysHash
    \/ ApplyScPubKeysHash

SpecCommitAll == InitCommitAll /\ [][NextCommitAll]_vars

\* per key, in index order, bytes 32..47 of the 48-byte big-endian x
LowBytesPreimage(keys) ==
    LET RECURSIVE pre(_)
        pre(i) == IF i > Len(keys) THEN <<>>
                  ELSE SubSeq(XBytes(keys[i]), 33, FpBytes) \o pre(i + 1)
    IN pre(1)

\* C25: for every set of keys, the circuit (Limbs[1] then Limbs[0] of x, big-endian),
\* the Go ComputeScPubKeysHash (bytes 32..47 of the big-endian x), the Solidity
\* _pubKeysHash (bytes 32..47 of each serialized key) and the TypeScript
\* scPubKeysHash (slice(32,48)) hash the same preimage: 16 bytes per key, in
\* key-index order.
C25_AllCommitmentsAgree ==
    LET pre == LowBytesPreimage(arg.ScPubKeys)
        expected == Sha256(pre, 16 * CommitteeSize)
    IN /\ Len(pre) = 16 * CommitteeSize
       /\ "verifyScPubKeysHash" \in fn => ret.circuit = expected
       /\ "ComputeScPubKeysHash" \in fn => ret.native = expected
       /\ "_pubKeysHash" \in fn => ret.contract = expected
       /\ "scPubKeysHash" \in fn => ret.test = expected

\* all four implementations applied to keys whose encodings differ from x in the
\* flag bits and whose neighbours differ in their first 16 bytes
C25_Witness ==
    /\ fn = {"verifyScPubKeysHash", "ComputeScPubKeysHash", "_pubKeysHash", "scPubKeysHash"}
    /\ ret.circuit = ret.contract /\ ret.native = ret.test /\ ret.circuit = ret.native
    /\ arg.prefixed
    /\ arg.ScPubKeys[1] # arg.ScPubKeys[2]
    /\ \A k \in Indices : BLSPubkey(arg.ScPubKeys[k]) # XBytes(arg.ScPubKeys[k])
    /\ SubSeq(XBytes(arg.ScPubKeys[2]), 1, 16) # SubSeq(XBytes(arg.ScPubKeys[2]), 33, 48)

\* C26: for every bit vector with at least one bit set and every vector of valid
\* keys, vectors that hold the same key more than once included, the operands of
\* the addition gate in aggregatePubKeys (the accumulator and ScPubKeys[i]) are
\* distinct points at every step, selected or not, so the aggregation
\* constraints are satisfiable.
C26_AddOperandsDistinct ==
    ("aggregatePubKeys" \in fn /\ \E i \in Indices : arg.bits[i] = 1)
        => /\ Len(ret.circuit.adds) = CommitteeSize - 1
           /\ \A s \in 1..Len(ret.circuit.adds) :
                ret.circuit.adds[s][1] # ret.circuit.adds[s][2]
           /\ ret.circuit.sat

(* The LightClient contract: constructor and updateSyncCommittee *)

SLOTS_PER_EPOCH == 32
EPOCHS_PER_SYNC_COMMITTEE_PERIOD == 256

\* the length updateSyncCommittee requires of nextSc: one encoded key per member
\* and the aggregate key (24624 = 513 * 48 for 512 members)
NextScLength == (CommitteeSize + 1) * FpBytes

\* _scRoot: every 48-byte key padded to two chunks and hashed to a leaf, the
\* leaves of the members merkleized pairwise, the root paired with the leaf of the
\* aggregate key
_scRoot(syncCommitteeData) ==
    LET chunk0(offset) == SubSeq(syncCommitteeData, offset + 1, offset + ChunkLen)
        chunk1(offset) == [j \in 1..ChunkLen |->
                              IF j <= 16 THEN syncCommitteeData[offset + ChunkLen + j] ELSE 0]
        leaf(offset) == hashPair(chunk0(offset), chunk1(offset))
        RECURSIVE level(_, _)
        level(lo, hi) == IF lo = hi THEN leaf((lo - 1) * FpBytes)
                         ELSE LET mid == (lo + hi) \div 2
                              IN hashPair(level(lo, mid), level(mid + 1, hi))
        pubkeysRoot == level(1, CommitteeSize)
        aggregatePubkeyRoot == leaf(CommitteeSize * FpBytes)
    IN hashPair(pubkeysRoot, aggregatePubkeyRoot)

\* ScUpdateVerifier.verifyProof: returns for a proof made for these public inputs,
\* reverts for every other proof
verifyProof(proofArg, input) == proofArg.public = input

\* the storage of the contract after the constructor
constructor(_initialPeriod, _initialScPubkeysHash) ==
    [lastPeriod |-> _initialPeriod,
     scPubkeysHashes |-> [p \in 0..(MaxPeriod + 1) |->
                             IF p = _initialPeriod THEN _initialScPubkeysHash ELSE zeroChunk]]

\* updateSyncCommittee storing the new hash under the period of the slot
updateSyncCommitteeStoringAtPeriod(storage, proofArg, slot, nextSc) ==
    LET _period == slot \div (SLOTS_PER_EPOCH * EPOCHS_PER_SYNC_COMMITTEE_PERIOD)
    IN IF Len(nextSc) # NextScLength THEN [storage |-> storage, err |-> "Invalid nextSc length"]
       ELSE IF _period # storage.lastPeriod THEN [storage |-> storage, err |-> "Period must be same"]
       ELSE IF ~verifyProof(proofArg, VerifierInput(storage.scPubkeysHashes[storage.lastPeriod],
                                                    Bytes32(_scRoot(nextSc))))
            THEN [storage |-> storage, err |-> "ProofInvalid"]
       ELSE [storage |-> [lastPeriod |-> _period + 1,
                          scPubkeysHashes |-> [p \in DOMAIN storage.scPubkeysHashes |->
                              IF p = _period THEN Bytes32(_pubKeysHash(nextSc))
                              ELSE storage.scPubkeysHashes[p]]],
             err |-> "nil"]

\* updateSyncCommittee: the three requirements in their order, then
\* lastPeriod = _period + 1 and scPubkeysHashes[lastPeriod] = _pubKeysHash(nextSc);
\* a revert leaves the storage as it was
updateSyncCommittee(storage, proofArg, slot, nextSc) ==
    LET _period == slot \div (SLOTS_PER_EPOCH * EPOCHS_PER_SYNC_COMMITTEE_PERIOD)
    IN IF Len(nextSc) # NextScLength THEN [storage |-> storage, err |-> "Invalid nextSc length"]
       ELSE IF _period # storage.lastPeriod THEN [storage |-> storage, err |-> "Period must be same"]
       ELSE IF ~verifyProof(proofArg, VerifierInput(storage.scPubkeysHashes[storage.lastPeriod],
                                                    Bytes32(_scRoot(nextSc))))
            THEN [storage |-> storage, err |-> "ProofInvalid"]
       ELSE [storage |-> [lastPeriod |-> _period + 1,
                          scPubkeysHashes |-> [p \in DOMAIN storage.scPubkeysHashes |->
                              IF p = _period + 1 THEN Bytes32(_pubKeysHash(nextSc))
                              ELSE storage.scPubkeysHashes[p]]],
             err |-> "nil"]

\* the committee of a period as the relayer submits it
NextScOf(p) ==
    LET sc == ApiSyncCommittee(SyncCommitteeOf(p), TRUE)
    IN syncCommitteeToBytes(sc.pubkeys, sc.aggregate_pubkey)

\* the committees of the chain in calldata form, and their roots
ChainNextSc == [p \in InitPeriod..(MaxPeriod + 1) |-> NextScOf(p)]
ChainNextScRoot == [p \in InitPeriod..(MaxPeriod + 1) |-> Bytes32(_scRoot(ChainNextSc[p]))]

\* calldata a caller can pass as nextSc: the committee that follows the last
\* period, the committee of the initial period, and byte strings one byte short
\* and one byte long
NextScInputs(storage) ==
    {ChainNextSc[IF storage.lastPeriod <= MaxPeriod THEN storage.lastPeriod + 1 ELSE InitPeriod],
     ChainNextSc[InitPeriod],
     SubSeq(ChainNextSc[InitPeriod], 1, NextScLength - 1),
     Append(ChainNextSc[InitPeriod], 0)}

\* slots a caller can pass: the first and the last slot of the last period, the
\* slot before and the slot after them
CallSlots(storage) ==
    LET first == storage.lastPeriod * SLOTS_PER_EPOCH * EPOCHS_PER_SYNC_COMMITTEE_PERIOD
        last == first + SLOTS_PER_EPOCH * EPOCHS_PER_SYNC_COMMITTEE_PERIOD - 1
    IN {slot \in {first - 1, first, last, last + 1} :
           /\ slot >= 0
           /\ slot < (MaxPeriod + 1) * SLOTS_PER_EPOCH * EPOCHS_PER_SYNC_COMMITTEE_PERIOD}

\* proofs a caller can hold: one for the hash stored for the last or for the
\* initial period and the root of either committee, and no proof
CallProofs(storage) ==
    {[public |-> VerifierInput(storage.scPubkeysHashes[p], ChainNextScRoot[q])] :
        p \in {InitPeriod, storage.lastPeriod},
        q \in {InitPeriod, IF storage.lastPeriod <= MaxPeriod THEN storage.lastPeriod + 1
                           ELSE InitPeriod}}
        \cup {NoProof}

NoContractCall == [slot |-> 0, nextSc |-> <<>>, proof |-> NoProof]

\* deployment with the hash of the committee of the initial period
InitLightClient ==
    /\ pc = "deployed"
    /\ witness = NoWitness
    /\ proof = NoProof
    /\ err = "nil"
    /\ scenario = "none"
    /\ fn = {}
    /\ arg = NoContractCall
    /\ disk = NoDisk
    /\ mem = constructor(InitPeriod, Bytes32(ComputeScPubKeysHash(SyncCommitteeOf(InitPeriod))))
    /\ ret = [written |-> {InitPeriod}, reverted |-> FALSE]

\* one transaction calling updateSyncCommittee
CallUpdateSyncCommittee ==
    /\ pc = "deployed"
    /\ \E proofArg \in CallProofs(mem), slot \in CallSlots(mem), nextSc \in NextScInputs(mem) :
         LET res == updateSyncCommittee(mem, proofArg, slot, nextSc)
         IN /\ mem' = res.storage
            /\ err' = res.err
            /\ arg' = [slot |-> slot, nextSc |-> nextSc, proof |-> proofArg]
            /\ ret' = [written |-> IF res.err = "nil"
                                   THEN ret.written \cup {res.storage.lastPeriod}
                                   ELSE ret.written,
                       reverted |-> ret.reverted \/ res.err # "nil"]
    /\ UNCHANGED <<pc, witness, proof, scenario, fn, disk>>

NextLightClient == CallUpdateSyncCommittee

SpecLightClient == InitLightClient /\ [][NextLightClient]_vars

\* C27: a call of updateSyncCommittee succeeds only if nextSc has the required
\* length (24624 bytes for 512 members), slot / 8192 equals lastPeriod and the
\* verifier accepts the proof for the inputs (stored hash of lastPeriod, root of
\* nextSc); a successful call increases lastPeriod by exactly 1 and writes only
\* scPubkeysHashes[new lastPeriod]; a reverted call changes nothing; lastPeriod
\* never decreases and an entry of scPubkeysHashes, once written, is never changed.
C27_UpdateSyncCommitteeInvariants ==
    [][/\ err' = "nil" =>
            /\ Len(arg'.nextSc) = (CommitteeSize + 1) * 48
            /\ arg'.slot \div 8192 = mem.lastPeriod
            /\ arg'.proof.public = mem.scPubkeysHashes[mem.lastPeriod]
                                       \o Bytes32(_scRoot(arg'.nextSc))
            /\ mem'.lastPeriod = mem.lastPeriod + 1
            /\ \A p \in DOMAIN mem.scPubkeysHashes :
                 p # mem'.lastPeriod => mem'.scPubkeysHashes[p] = mem.scPubkeysHashes[p]
       /\ err' # "nil" => mem' = mem
       /\ mem'.lastPeriod >= mem.lastPeriod
       /\ DOMAIN mem'.scPubkeysHashes = DOMAIN mem.scPubkeysHashes
       /\ \A p \in ret.written : mem'.scPubkeysHashes[p] = mem.scPubkeysHashes[p]]_vars

\* two successful updates after deployment, with reverted calls in between, leave
\* three different hashes stored under three consecutive periods
C27_Witness ==
    /\ pc = "deployed"
    /\ err = "nil"
    /\ ret.reverted
    /\ Cardinality(ret.written) = 3
    /\ mem.lastPeriod \in ret.written
    /\ mem.scPubkeysHashes[mem.lastPeriod] = Bytes32(_pubKeysHash(arg.nextSc))
    /\ mem.scPubkeysHashes[mem.lastPeriod] # mem.scPubkeysHashes[mem.lastPeriod - 1]
    /\ mem.scPubkeysHashes[mem.lastPeriod - 1] # mem.scPubkeysHashes[mem.lastPeriod - 2]

(* onceSetupCircuit over histories of the build directory: files removed, the
   circuit redefined, runs cut short between two file writes *)

\* the circuit definitions the source tree can hold, as the constraint system
\* frontend.Compile makes of each
CircuitVersions == {1, 2}

NoKey == [setup |-> 0, ccs |-> 0]
NoBuild == [source |-> 1, ccs |-> 0, pk |-> NoKey, vk |-> NoKey]
NilProcess == [blsVerifierCCS |-> 0, blsVerifierPK |-> NoKey, blsVerifierVK |-> NoKey]

\* a fresh checkout: the first circuit definition, no build file, no process
InitOnceSetup ==
    /\ pc = "idle"
    /\ witness = NoWitness
    /\ proof = NoProof
    /\ err = "nil"
    /\ scenario = "none"
    /\ fn = {}
    /\ arg = <<>>
    /\ ret = [setups |-> 0, redefined |-> FALSE, interrupted |-> FALSE]
    /\ disk = NoBuild
    /\ mem = NilProcess

\* the steps of onceSetupCircuit up to a point: "ccs" stops after the .ccs file is
\* settled, "pk" after the .pk file is written, "end" is the whole function.
\* Compile runs when the .ccs file cannot be opened, groth16.Setup when the .pk
\* or the .vk file cannot be opened; the n-th Setup invocation is named n
onceSetupCircuitUpTo(point, build, setups) ==
    LET compiles == build.ccs = 0
        ccs == IF compiles THEN build.source ELSE build.ccs
        generates == build.pk = NoKey \/ build.vk = NoKey
        made == [setup |-> setups + 1, ccs |-> ccs]
        pk == IF generates THEN made ELSE build.pk
        vk == IF generates THEN made ELSE build.vk
    IN [build |-> [source |-> build.source,
                   ccs |-> ccs,
                   pk |-> IF point = "ccs" THEN build.pk ELSE pk,
                   vk |-> IF point = "end" THEN vk ELSE build.vk],
        process |-> [blsVerifierCCS |-> ccs, blsVerifierPK |-> pk, blsVerifierVK |-> vk],
        setups |-> IF generates /\ point # "ccs" THEN setups + 1 ELSE setups]

\* onceSetupCircuit in a process whose package variables are nil
RunOnceSetupCircuit ==
    /\ mem.blsVerifierCCS = 0
    /\ ret.setups < MaxKeySeeds
    /\ LET res == onceSetupCircuitUpTo("end", disk, ret.setups)
       IN /\ disk' = res.build
          /\ mem' = res.process
          /\ ret' = [ret EXCEPT !.setups = res.setups]
    /\ UNCHANGED <<fn, arg, lifecycleVars>>

\* onceSetupCircuit cut short by the end of the process after the .ccs file or
\* after the .pk file was written
InterruptOnceSetupCircuit ==
    /\ mem.blsVerifierCCS = 0
    /\ ret.setups < MaxKeySeeds
    /\ \E point \in {"ccs", "pk"} :
         LET res == onceSetupCircuitUpTo(point, disk, ret.setups)
         IN /\ res.build # disk
            /\ disk' = res.build
            /\ ret' = [ret EXCEPT !.setups = res.setups, !.interrupted = TRUE]
    /\ UNCHANGED <<mem, fn, arg, lifecycleVars>>

\* the test process ends; the next one starts with nil package variables
EndTestProcess ==
    /\ mem # NilProcess
    /\ mem' = NilProcess
    /\ UNCHANGED <<disk, ret, fn, arg, lifecycleVars>>

\* one build file is deleted to force recompilation or regeneration
DeleteBuildFile ==
    /\ \/ disk.ccs # 0 /\ disk' = [disk EXCEPT !.ccs = 0]
       \/ disk.pk # NoKey /\ disk' = [disk EXCEPT !.pk = NoKey]
       \/ disk.vk # NoKey /\ disk' = [disk EXCEPT !.vk = NoKey]
    /\ UNCHANGED <<mem, ret, fn, arg, lifecycleVars>>

\* the circuit definition in the source tree is changed
RedefineCircuit ==
    /\ \E version \in CircuitVersions \ {disk.source} : disk' = [disk EXCEPT !.source = version]
    /\ ret' = [ret EXCEPT !.redefined = TRUE]
    /\ UNCHANGED <<mem, fn, arg, lifecycleVars>>

NextOnceSetup ==
    \/ RunOnceSetupCircuit
    \/ InterruptOnceSetupCircuit
    \/ EndTestProcess
    \/ DeleteBuildFile
    \/ RedefineCircuit

SpecOnceSetup == InitOnceSetup /\ [][NextOnceSetup]_vars

\* C28: after onceSetupCircuit returns, the constraint system, the proving key
\* and the verifying key in memory are mutually consistent: both keys come from
\* one Setup invocation run on that constraint system, whatever the history of
\* deleted cache files, circuit redefinitions and interrupted runs was.
C28_KeysMatchConstraintSystem ==
    mem.blsVerifierCCS # 0 =>
        /\ mem.blsVerifierPK.setup = mem.blsVerifierVK.setup
        /\ mem.blsVerifierPK.ccs = mem.blsVerifierCCS
        /\ mem.blsVerifierVK.ccs = mem.blsVerifierCCS

(* NewConfig on the argument list of the process *)

\* strconv.ParseUint(s, 10, 64) with the error dropped: the value of a decimal
\* string, 0 for a string that is no number
ParseUint(s) ==
    CASE s = "0" -> 0
      [] s = "7" -> 7
      [] s = "8192" -> 8192
      [] OTHER -> 0

\* getEnv: the value of the variable, the default when it is unset or empty
getEnv(env, key, defaultValue) == IF env[key] # "" THEN env[key] ELSE defaultValue

DefaultConfig(env) ==
    [RootDir |-> getEnv(env, "ROOT", "."),
     RPCEndpoint |-> getEnv(env, "RPC_ENDPOINT", "https://lodestar-sepolia.chainsafe.io/"),
     InitPeriod |-> 0,
     Slot |-> 0]

\* NewConfig: the loop over args from index 0; at every index it panics when no
\* argument follows, and the message of that panic reads args[i-1]
NewConfig(env, args) ==
    LET RECURSIVE loop(_, _)
        loop(i, config) ==
            IF i >= Len(args) THEN [config |-> config, panic |-> "none"]
            ELSE IF Len(args) <= i + 1
                 THEN [config |-> config,
                       panic |-> IF i = 0 THEN "index out of range" ELSE "missing argument"]
            ELSE IF args[i + 1] = "--slot"
                 THEN loop(i + 2, [config EXCEPT !.Slot = ParseUint(args[i + 2])])
            ELSE IF args[i + 1] = "--root"
                 THEN loop(i + 2, [config EXCEPT !.RootDir = args[i + 2]])
            ELSE IF args[i + 1] = "--init-period"
                 THEN loop(i + 2, [config EXCEPT !.InitPeriod = ParseUint(args[i + 2])])
            ELSE IF args[i + 1] = "--rpc"
                 THEN loop(i + 2, [config EXCEPT !.RPCEndpoint = args[i + 2]])
            ELSE loop(i + 1, config)
    IN loop(0, DefaultConfig(env))

ConfigFlags == {"--slot", "--root", "--init-period", "--rpc"}
ConfigValues == {"7", "8192", "/srv/relayer", "http://localhost:9596"}
MaxFlagPairs == 2

\* os.Args as main passes it: the program name, then flag/value pairs
ArgLists ==
    LET pairs(n) == [1..n -> ConfigFlags \X ConfigValues]
        flat(ps) == <<"relayer">> \o [k \in 1..(2 * Len(ps)) |-> ps[(k + 1) \div 2][2 - (k % 2)]]
    IN UNION {{flat(ps) : ps \in pairs(n)} : n \in 0..MaxFlagPairs}

InitConfig ==
    /\ Idle
    /\ fn = {}
    /\ arg \in [env : [{"ROOT", "RPC_ENDPOINT"} -> {"", "/opt/zk"}], args : ArgLists]
    /\ ret = [config |-> <<>>, panic |-> "none"]

ApplyNewConfig ==
    /\ "NewConfig" \notin fn
    /\ fn' = fn \cup {"NewConfig"}
    /\ ret' = NewConfig(arg.env, arg.args)
    /\ UNCHANGED <<arg, lifecycleVars, processVars>>

NextConfig == ApplyNewConfig

SpecConfig == InitConfig /\ [][NextConfig]_vars

\* the value of the last pair of the list that carries the flag, or none
LastValueOf(args, flag, none) ==
    LET at == {k \in 2..(Len(args) - 1) : k % 2 = 0 /\ args[k] = flag}
        last == CHOOSE k \in at : \A j \in at : j <= k
    IN IF at = {} THEN none ELSE args[last + 1]

\* C29: NewConfig called with the argument list of the process (the program name,
\* then zero or more flag/value pairs among --slot, --root, --init-period, --rpc)
\* returns a Config and never panics: with no flags the defaults, and each flag
\* sets only its own field.
C29_NewConfigReturns ==
    "NewConfig" \in fn =>
        /\ ret.panic = "none"
        /\ ret.config =
             [RootDir |-> LastValueOf(arg.args, "--root", DefaultConfig(arg.env).RootDir),
              RPCEndpoint |-> LastValueOf(arg.args, "--rpc", DefaultConfig(arg.env).RPCEndpoint),
              InitPeriod |-> ParseUint(LastValueOf(arg.args, "--init-period", "0")),
              Slot |-> ParseUint(LastValueOf(arg.args, "--slot", "0"))]

(* ParseSyncCommitteeBits and the ScBits of the witness on bit fields of several
   bytes *)

\* entries parsed from bit fields of more than one byte
ParsedEntries == 4 * CommitteeSize

\* bit fields shorter than, as long as and longer than the entries need
BitFieldInputs == UNION {[1..n -> {0, 1, 2, 8, 130, 255}] : n \in 0..3}

InitBits ==
    /\ Idle
    /\ fn = {}
    /\ arg \in [bitsBytes : BitFieldInputs]
    /\ ret = [bits |-> <<>>, ScBits |-> <<>>]

\* generateProof: bits := ParseSyncCommitteeBits(...), then the loop over ScBits
ApplyParseSyncCommitteeBits ==
    /\ "ParseSyncCommitteeBits" \notin fn
    /\ fn' = fn \cup {"ParseSyncCommitteeBits"}
    /\ ret' = [bits |-> parseBits(arg.bitsBytes, ParsedEntries),
               ScBits |-> assignScBits(parseBits(arg.bitsBytes, ParsedEntries))]
    /\ UNCHANGED <<arg, lifecycleVars, processVars>>

NextBits == ApplyParseSyncCommitteeBits

SpecBits == InitBits /\ [][NextBits]_vars

\* C30: ParseSyncCommitteeBits returns one entry per member; entry i is true
\* exactly when byte floor(i/8) exists in the input and its bit (i mod 8), counted
\* from the least-significant bit, is set (entries past the end of a short input
\* are false); the witness builder sets ScBits[i] to 1 exactly for the true
\* entries.
C30_BitsLsbFirst ==
    "ParseSyncCommitteeBits" \in fn =>
        /\ Len(ret.bits) = ParsedEntries
        /\ Len(ret.ScBits) = ParsedEntries
        /\ \A i \in 0..(ParsedEntries - 1) :
             LET exists == (i \div 8) + 1 <= Len(arg.bitsBytes)
                 weight == Pow(2, i % 8)
             IN /\ ret.bits[i + 1] \in BOOLEAN
                /\ ret.bits[i + 1] <=>
                     (exists /\ arg.bitsBytes[(i \div 8) + 1] % (2 * weight) >= weight)
                /\ ret.ScBits[i + 1] = (IF ret.bits[i + 1] THEN 1 ELSE 0)

\* a one-byte field with bits 1 and 7 set: entries 1 and 7 are the only ones set,
\* every entry of the missing second byte is 0
C30_Witness ==
    /\ "ParseSyncCommitteeBits" \in fn
    /\ arg.bitsBytes = <<130>>
    /\ {i \in 1..ParsedEntries : ret.ScBits[i] = 1} = {2, 8}
    /\ ParsedEntries > 8

=============================================================================
